---- MODULE Spec2Model ----
(***************************************************************************)
(* A model of the storage orchestration layer of the installer:            *)
(*   - ManualPartitioningModule (modules/storage/partitioning/manual.py):  *)
(*     the mount point requests, the kickstart import/export and           *)
(*     gather_requests();                                                  *)
(*   - StorageModule (modules/storage/storage.py): the canonical storage   *)
(*     model, its change notification, reset_with_task() and               *)
(*     apply_partitioning().                                               *)
(***************************************************************************)
EXTENDS Integers, Sequences, FiniteSets, TLC

\* ------------------------------------------------------------------------
\* Bounds of the model.
\* ------------------------------------------------------------------------

\* The number of leaf devices of the device tree.
MaxDevices == 3

\* The longest list of declared mount point requests.
MaxRequests == 2

\* The number of storage models (Blivet objects) ever created.
MaxModels == 3

\* The number of reset tasks ever created.
MaxTasks == 1

\* The number of partitioning modules created after __init__.
MaxCreated == 1

\* The number of devices of the NetworkManager client.
MaxNetDevices == 2

\* The number of network commands of the kickstart file.
MaxNetworkData == 1

\* The python value None.
None == "None"

\* ------------------------------------------------------------------------
\* State.
\* ------------------------------------------------------------------------
VARIABLES
    leaves,           \* storage.devicetree.leaves of the module's storage
    selected_disks,   \* PartitioningModule._selected_disks
    requests,         \* ManualPartitioningModule._requests
    enabled,          \* ManualPartitioningModule._enabled
    _storage,         \* StorageModule._storage: the canonical model (0: None)
    models,           \* the storage models created so far; a model is named by
                      \* its position in this list (the identity of the object)
    modules,          \* the partitioning modules: the model delivered to each
                      \* one and its playground
    views,            \* the model last delivered to each of the other modules
    tasks,            \* the reset tasks created so far
    ignored_disks,    \* DiskSelectionModule.ignored_disks
    exclusive_disks,  \* DiskSelectionModule.exclusive_disks
    protected_devices, \* DiskSelectionModule.protected_devices
    disk_images,      \* DiskSelectionModule.disk_images
    disk_selection,   \* DiskSelectionModule.selected_disks
    created,          \* the partitioning modules create_partitioning() made
                      \* after __init__, in the order of their creation
    can_configure_network, \* conf.system.can_configure_network
    nm_client,        \* the NetworkManager client the tasks are created with:
                      \* whether there is one, and the devices it knows
    network_data,     \* the kickstart network commands the tasks are created with
    return_value,     \* the list guard_by_system_configuration holds for the
                      \* run method of each task
    addons,           \* AddonRegistry.__dict__: the addons by id, in the order
                      \* of their insertion
    addon_id,         \* AddonSection.addon_id
    bootloader_storage, \* BootloaderModule._storage: the model delivered to
                      \* the bootloader module and its boot loader
    bootloader_mode,  \* BootloaderModule.bootloader_mode
    spoke,            \* the BlivetGuiSpoke: its storage, _storage_playground,
                      \* _error, _back_already_clicked, the errors and
                      \* warnings of StorageCheckHandler, the info bar and
                      \* whether the spoke is displayed
    collections,      \* the collections of the storage objects of the spoke:
                      \* the number of entries of each; a collection is named
                      \* by its position in this list (its identity)
    checked,          \* history: _do_check() ran since the last refresh()
    ret               \* the last operation, its argument, its return value
                      \* or error and the signals it emitted

manualVars == <<leaves, selected_disks, requests, enabled>>

diskSelectionVars ==
    <<ignored_disks, exclusive_disks, protected_devices, disk_images, disk_selection>>

storageVars == <<_storage, models, modules, views, tasks, created, diskSelectionVars>>

networkVars == <<can_configure_network, nm_client, network_data, return_value>>

addonVars == <<addons, addon_id>>

bootloaderVars == <<bootloader_storage, bootloader_mode>>

spokeVars == <<spoke, collections, checked>>

otherVars == <<networkVars, addonVars, bootloaderVars, spokeVars>>

vars == <<manualVars, storageVars, networkVars, addonVars, bootloaderVars, spokeVars, ret>>

\* A kickstart handler as get_kickstart_handler() returns it: no command seen.
FreshData == [mount |-> [seen |-> FALSE, mount_points |-> <<>>]]

\* The record of the last operation: its name, the error it raised (""
\* when it returned), the signals it emitted, and its argument or return
\* value: a kickstart record (data), a list (out), a name (who), a number
\* (num), a truth value (flag), a list of tasks (tasks); for a task or the
\* registry of the addons, the calls it made on the objects it works
\* with (calls).
NoRet ==
    [op |-> "", err |-> "", emitted |-> {}, data |-> FreshData,
     out |-> <<>>, who |-> "", num |-> 0, flag |-> FALSE, tasks |-> <<>>,
     calls |-> <<>>]

\* ------------------------------------------------------------------------
\* The device tree (an input of the module).
\* ------------------------------------------------------------------------

DeviceNames == <<"sda1", "sda2", "sda3", "sda4", "sda5">>
DevicePaths == <<"/dev/sda1", "/dev/sda2", "/dev/sda3", "/dev/sda4", "/dev/sda5">>

\* The disks of the machine, by name.
Disks == {1, 2}

\* The kinds of devices a tree is built from: what the module reads of
\* a device (protected, size, disks, format.type, format.mountable,
\* format.mountpoint).
DeviceKinds == {
    [protected |-> FALSE, size |-> 1, disks |-> {1},
     format |-> [type |-> "ext4", mountable |-> TRUE, mountpoint |-> "/mnt"]],
    [protected |-> FALSE, size |-> 1, disks |-> {2},
     format |-> [type |-> "ext4", mountable |-> TRUE, mountpoint |-> None]],
    [protected |-> FALSE, size |-> 1, disks |-> {1, 2},
     format |-> [type |-> None, mountable |-> FALSE, mountpoint |-> None]],
    [protected |-> TRUE, size |-> 1, disks |-> {1},
     format |-> [type |-> "ext4", mountable |-> TRUE, mountpoint |-> "/mnt"]],
    [protected |-> FALSE, size |-> 0, disks |-> {2},
     format |-> [type |-> None, mountable |-> FALSE, mountpoint |-> None]]
}

\* The device at position i of the leaves, of the given kind.
Device(i, kind) ==
    [id |-> i, name |-> DeviceNames[i], path |-> DevicePaths[i],
     protected |-> kind.protected, size |-> kind.size, disks |-> kind.disks,
     format |-> kind.format]

\* All device trees of MaxDevices leaves.
DeviceTrees ==
    { [i \in 1..MaxDevices |-> Device(i, kinds[i])] :
        kinds \in [1..MaxDevices -> DeviceKinds] }

\* devicetree.resolve_device(spec): the device a specifier names (by name
\* or by path), or None.
resolve_device(spec) ==
    IF \E i \in 1..Len(leaves) : spec \in {leaves[i].name, leaves[i].path}
    THEN (CHOOSE i \in 1..Len(leaves) : spec \in {leaves[i].name, leaves[i].path})
    ELSE 0

\* ------------------------------------------------------------------------
\* Mount point requests and kickstart records.
\* ------------------------------------------------------------------------

\* MountPointRequest() as constructed.
MountPointRequest ==
    [mount_point |-> "", device_spec |-> "", reformat |-> FALSE,
     format_type |-> "", format_options |-> "", mount_options |-> ""]

MountPoints == <<"/", "/home", "/var", "/opt", "/srv">>

\* The requests a caller declares: one per device, by its name, a second one
\* for the first device, by its path, and one that names no device.
RequestPool ==
    { [mount_point |-> MountPoints[i], device_spec |-> DeviceNames[i],
       reformat |-> TRUE, format_type |-> "xfs",
       format_options |-> "-f", mount_options |-> "noatime"] : i \in 1..MaxDevices }
    \cup
    { [mount_point |-> "", device_spec |-> DevicePaths[1],
       reformat |-> FALSE, format_type |-> "swap",
       format_options |-> "", mount_options |-> "defaults"] }
    \cup
    { [mount_point |-> "/boot", device_spec |-> "LABEL=boot",
       reformat |-> FALSE, format_type |-> "",
       format_options |-> "", mount_options |-> ""] }

RECURSIVE SeqsUpTo(_, _)
SeqsUpTo(S, n) ==
    IF n = 0 THEN {<<>>}
    ELSE LET shorter == SeqsUpTo(S, n - 1)
         IN shorter \cup { Append(s, x) : s \in shorter, x \in S }

RequestLists == SeqsUpTo(RequestPool, MaxRequests)

\* The mount commands of a kickstart file (data.MountData records).
MountDataPool ==
    { [mount_point |-> MountPoints[i], device |-> DeviceNames[i],
       reformat |-> TRUE, format |-> "xfs",
       mkfs_opts |-> "-f", mount_opts |-> "noatime"] : i \in 1..MaxDevices }
    \cup
    { [mount_point |-> "", device |-> DevicePaths[1],
       reformat |-> FALSE, format |-> "swap",
       mkfs_opts |-> "", mount_opts |-> "defaults"] }
    \cup
    { [mount_point |-> "/boot", device |-> "LABEL=boot",
       reformat |-> FALSE, format |-> "",
       mkfs_opts |-> "", mount_opts |-> ""] }

\* The kickstart records process_kickstart is called with.
KickstartData ==
    { [mount |-> [seen |-> seen, mount_points |-> mount_points]] :
        seen \in BOOLEAN, mount_points \in SeqsUpTo(MountDataPool, MaxRequests) }

\* The lists of selected disks: one list for every set of disks.
RECURSIVE SortedSeq(_)
SortedSeq(S) ==
    IF S = {} THEN <<>>
    ELSE LET m == CHOOSE x \in S : \A y \in S : x <= y
         IN <<m>> \o SortedSeq(S \ {m})

SelectedDiskLists == { SortedSeq(S) : S \in SUBSET Disks }

\* set(list)
set(list) == { list[i] : i \in 1..Len(list) }

\* ------------------------------------------------------------------------
\* ManualPartitioningModule.
\* ------------------------------------------------------------------------

\* (mutation of request_from_mount_data: the two option strings swapped)
request_from_mount_data_swapped(mount_data) ==
    [mount_point |-> mount_data.mount_point, device_spec |-> mount_data.device,
     reformat |-> mount_data.reformat, format_type |-> mount_data.format,
     format_options |-> mount_data.mount_opts, mount_options |-> mount_data.mkfs_opts]

\* process_kickstart: the request built from one mount command.
request_from_mount_data(mount_data) ==
    [MountPointRequest EXCEPT
        !.mount_point = mount_data.mount_point,
        !.device_spec = mount_data.device,
        !.reformat = mount_data.reformat,
        !.format_type = mount_data.format,
        !.format_options = mount_data.mkfs_opts,
        !.mount_options = mount_data.mount_opts]

\* data.MountData() as constructed.
MountData ==
    [mount_point |-> "", device |-> "", reformat |-> FALSE,
     format |-> "", mkfs_opts |-> "", mount_opts |-> ""]

\* setup_kickstart: the mount command built from one request.
mount_data_from_request(request) ==
    [MountData EXCEPT
        !.mount_point = request.mount_point,
        !.device = request.device_spec,
        !.reformat = request.reformat,
        !.format = request.format_type,
        !.mkfs_opts = request.format_options,
        !.mount_opts = request.mount_options]

\* set_requests(requests)
SetRequests(new_requests) ==
    /\ requests' = new_requests
    /\ ret' = [NoRet EXCEPT !.op = "set_requests", !.emitted = {"requests_changed"}]
    /\ UNCHANGED <<otherVars, leaves, selected_disks, enabled, storageVars>>

\* set_enabled(enabled)
SetEnabled(new_enabled) ==
    /\ enabled' = new_enabled
    /\ ret' = [NoRet EXCEPT !.op = "set_enabled", !.emitted = {"enabled_changed"}]
    /\ UNCHANGED <<otherVars, leaves, selected_disks, requests, storageVars>>

\* Where the argument of process_kickstart comes from: the record the
\* preceding setup_kickstart call generated, that record with its mount
\* section marked as seen, or anywhere else.
Provenance(data) ==
    IF ret.op = "setup_kickstart" /\ data = ret.data THEN "generated"
    ELSE IF ret.op = "setup_kickstart" /\ data = [ret.data EXCEPT !.mount.seen = TRUE]
         THEN "generated, seen"
         ELSE ""

\* (mutation of ProcessKickstart: nothing is done without a mount command)
ProcessKickstart_untouched(data) ==
    /\ IF ~data.mount.seen
       THEN /\ UNCHANGED <<requests, enabled>>
            /\ ret' = [NoRet EXCEPT !.op = "process_kickstart", !.data = data,
                                    !.who = Provenance(data)]
       ELSE /\ requests' = [i \in 1..Len(data.mount.mount_points) |->
                                request_from_mount_data(data.mount.mount_points[i])]
            /\ enabled' = TRUE
            /\ ret' = [NoRet EXCEPT !.op = "process_kickstart", !.data = data,
                                    !.who = Provenance(data),
                                    !.emitted = {"requests_changed", "enabled_changed"}]
    /\ UNCHANGED <<otherVars, leaves, selected_disks, storageVars>>

\* process_kickstart(data)
ProcessKickstart(data) ==
    /\ IF ~data.mount.seen
       THEN /\ requests' = <<>>
            /\ enabled' = FALSE
       ELSE /\ requests' = [i \in 1..Len(data.mount.mount_points) |->
                                request_from_mount_data(data.mount.mount_points[i])]
            /\ enabled' = TRUE
    /\ ret' = [NoRet EXCEPT !.op = "process_kickstart", !.data = data,
                            !.who = Provenance(data),
                            !.emitted = {"requests_changed", "enabled_changed"}]
    /\ UNCHANGED <<otherVars, leaves, selected_disks, storageVars>>

\* setup_kickstart(data): the record data after the call.
setup_kickstart(data) ==
    IF ~enabled
    THEN data
    ELSE [data EXCEPT !.mount.mount_points =
            [i \in 1..Len(requests) |-> mount_data_from_request(requests[i])]]

SetupKickstart(data) ==
    /\ ret' = [NoRet EXCEPT !.op = "setup_kickstart", !.data = setup_kickstart(data)]
    /\ UNCHANGED <<otherVars, manualVars, storageVars>>

\* (mutation of IsUsable: one selected disk is enough)
IsUsable_any_disk(device) ==
    /\ ~(device.protected \/ device.size = 0)
    /\ ~(set(selected_disks) # {} /\ device.disks \cap set(selected_disks) = {})

\* _iterate_usable_devices(): the usable devices, in the order of the leaves.
IsUsable(device) ==
    /\ ~(device.protected \/ device.size = 0)
    /\ ~(set(selected_disks) # {} /\ ~(device.disks \subseteq set(selected_disks)))

_iterate_usable_devices == SelectSeq(leaves, IsUsable)

\* (mutation of _find_request_for_device: the device is not compared)
_find_request_for_device_any(device, available_requests) ==
    IF available_requests = {} THEN {0} ELSE available_requests

\* _find_request_for_device(device, requests): the requests it can return.
\* The requests are the members of a python set, named here by their
\* position in self._requests; the loop returns the first one in the
\* iteration order of the set that resolves to the device, which can be any
\* of them; 0 stands for None.
_find_request_for_device(device, available_requests) ==
    LET matching == { k \in available_requests :
                        resolve_device(requests[k].device_spec) = device.id }
    IN IF matching = {} THEN {0} ELSE matching

\* (mutation of _create_request_for_device: the mount point is copied
\* whether or not the format is mountable and has one)
_create_request_for_device_mounted(device) ==
    [MountPointRequest EXCEPT
        !.device_spec = device.path,
        !.format_type = IF device.format.type \in {None, ""} THEN "" ELSE device.format.type,
        !.reformat = FALSE,
        !.mount_point = device.format.mountpoint]

\* _create_request_for_device(device)
_create_request_for_device(device) ==
    [MountPointRequest EXCEPT
        !.device_spec = device.path,
        !.format_type = IF device.format.type \in {None, ""} THEN "" ELSE device.format.type,
        !.reformat = FALSE,
        !.mount_point = IF device.format.mountable
                           /\ device.format.mountpoint \notin {None, ""}
                        THEN device.format.mountpoint
                        ELSE @]

\* (mutation of gather_loop: a device without a declared request is skipped)
RECURSIVE gather_loop_skipping(_, _, _)
gather_loop_skipping(devices, available_requests, acc) ==
    IF devices = <<>> THEN {acc}
    ELSE LET device == Head(devices)
         IN UNION {
              IF k # 0
              THEN gather_loop_skipping(Tail(devices), available_requests \ {k},
                               Append(acc, [device |-> device.id, declared |-> k,
                                            request |-> requests[k]]))
              ELSE gather_loop_skipping(Tail(devices), available_requests, acc)
              : k \in _find_request_for_device(device, available_requests) }

\* The loop of gather_requests(): the lists it can return for the devices
\* left to visit. An entry of the list is the request, the declared request
\* it is (0 for a new request) and the device it was added for.
RECURSIVE gather_loop(_, _, _)
gather_loop(devices, available_requests, acc) ==
    IF devices = <<>> THEN {acc}
    ELSE LET device == Head(devices)
         IN UNION {
              IF k # 0
              THEN gather_loop(Tail(devices), available_requests \ {k},
                               Append(acc, [device |-> device.id, declared |-> k,
                                            request |-> requests[k]]))
              ELSE gather_loop(Tail(devices), available_requests,
                               Append(acc, [device |-> device.id, declared |-> 0,
                                            request |-> _create_request_for_device(device)]))
              : k \in _find_request_for_device(device, available_requests) }

\* gather_requests()
GatherRequests ==
    /\ \E result \in gather_loop(_iterate_usable_devices, 1..Len(requests), <<>>) :
          ret' = [NoRet EXCEPT !.op = "gather_requests", !.out = result]
    /\ UNCHANGED <<otherVars, manualVars, storageVars>>

\* ------------------------------------------------------------------------
\* StorageModule.
\* ------------------------------------------------------------------------

\* The partitioning modules __init__ creates, in the order it creates them.
PartitioningMethods == <<"AUTOMATIC", "MANUAL", "CUSTOM", "INTERACTIVE", "BLIVET">>

\* The other modules __init__ connects to storage_changed, in that order.
StorageObservers ==
    <<"device_tree", "disk_init", "disk_selection", "snapshot", "bootloader">>

\* The names of the partitioning modules created after __init__.
CreatedNames == <<"created1", "created2", "created3", "created4">>

\* The callbacks of storage_changed, in the order of their connection:
\* create_partitioning connects the partitioning modules while __init__
\* creates them, the other modules are connected afterwards, and a later
\* create_partitioning connects its module after them.
storage_changed == PartitioningMethods \o StorageObservers \o created

\* (mutation of selected_disks_changed: create_partitioning does not connect
\* the module it creates)
selected_disks_changed_static == PartitioningMethods

\* The callbacks of selected_disks_changed of the disk selection module, in
\* the order of their connection.
selected_disks_changed == PartitioningMethods \o created

\* The partitioning modules the callers of the model work with.
UsedMethods == {"AUTOMATIC", "MANUAL"}

\* The values of the constraints of the disk selection module.
IgnoredDisksValues == {<<>>, <<"sdb">>}
ExclusiveDisksValues == {<<>>, <<"sda">>}
ProtectedDevicesValues == {<<>>, <<"/dev/sda1">>}
DiskImagesValues == {<<>>, <<"disk.img">>}

\* create_storage(): a new model, nothing scanned, no constraints.
create_storage ==
    [ignored_disks |-> <<>>, exclusive_disks |-> <<>>,
     protected_devices |-> <<>>, disk_images |-> <<>>, tree |-> "empty"]

\* The storage module and what its callbacks reach, as one value the
\* operations below transform: the canonical model, the models, the
\* partitioning modules, the views of the other modules and the log of the
\* callbacks called so far by the running operation.
Here ==
    [storage |-> _storage, models |-> models, modules |-> modules,
     views |-> views, log |-> <<>>]

\* A new object with the given content.
Allocate(st, content) == [st EXCEPT !.models = Append(@, content)]

\* PartitioningModule.on_storage_reset(storage), and on_storage_reset of
\* the other modules: the callback of storage_changed named handler. The
\* log keeps the model it was called with and the canonical model at the
\* time of the call.
on_storage_reset(st, handler, storage) ==
    LET called == [st EXCEPT !.log = Append(@, [handler |-> handler, storage |-> storage,
                                                 canonical |-> st.storage])]
    IN IF handler \in DOMAIN st.modules
       THEN [called EXCEPT !.modules[handler].current_storage = storage,
                           !.modules[handler].playground = 0]
       ELSE [called EXCEPT !.views[handler] = storage]

\* PartitioningModule.on_selected_disks_changed(selection)
on_selected_disks_changed(module, selection) ==
    [module EXCEPT !.selected_disks = selection]

\* (mutation of emit: the callbacks of the modules that are not partitioning
\* modules are not called)
RECURSIVE emit_partitionings(_, _, _)
emit_partitionings(st, handlers, storage) ==
    IF handlers = <<>> THEN st
    ELSE IF Head(handlers) \in DOMAIN st.modules
         THEN emit_partitionings(on_storage_reset(st, Head(handlers), storage),
                                 Tail(handlers), storage)
         ELSE emit_partitionings(st, Tail(handlers), storage)

\* Signal.emit(storage): the callbacks are called one after the other, in
\* the order of their connection.
RECURSIVE emit(_, _, _)
emit(st, handlers, storage) ==
    IF handlers = <<>> THEN st
    ELSE emit(on_storage_reset(st, Head(handlers), storage), Tail(handlers), storage)

\* (mutation of set_storage: the signal is emitted before the model is set)
set_storage_emit_first(st, storage) ==
    [emit(st, storage_changed, storage) EXCEPT !.storage = storage]

\* (mutation of set_storage: the signal is not emitted)
set_storage_silent(st, storage) == [st EXCEPT !.storage = storage]

\* set_storage(storage)
set_storage(st, storage) ==
    emit([st EXCEPT !.storage = storage], storage_changed, storage)

\* (mutation of storage_property: a model is created at every access)
storage_property_recreate(st) ==
    set_storage(Allocate(st, create_storage), Len(st.models) + 1)

\* The storage property: creates the canonical model when there is none.
storage_property(st) ==
    IF st.storage = 0
    THEN set_storage(Allocate(st, create_storage), Len(st.models) + 1)
    ELSE st

\* (mutation of copy: the same object is returned)
copy_alias(st, storage) == [st |-> st, id |-> storage]

\* Blivet.copy(): a new object with the content of the model.
copy(st, storage) ==
    [st |-> Allocate(st, st.models[storage]), id |-> Len(st.models) + 1]

\* (mutation of set_up_storage: the protected devices are not set)
set_up_storage_unprotected(content) ==
    [content EXCEPT
        !.ignored_disks = ignored_disks,
        !.exclusive_disks = exclusive_disks,
        !.disk_images = disk_images]

\* reset_with_task(): the constraints set on the copy.
set_up_storage(content) ==
    [content EXCEPT
        !.ignored_disks = ignored_disks,
        !.exclusive_disks = exclusive_disks,
        !.protected_devices = protected_devices,
        !.disk_images = disk_images]

\* The constraints of the disk selection module, as a record.
DiskSelection ==
    [ignored_disks |-> ignored_disks,
     exclusive_disks |-> exclusive_disks,
     protected_devices |-> protected_devices,
     disk_images |-> disk_images]

\* The operation creates no more models than the model has room for.
Bounded(st) == Len(st.models) <= MaxModels

\* The models something still refers to: the canonical model, the models
\* delivered to the modules, the playgrounds and the models of the tasks
\* that have not finished.
Referenced(st, new_tasks) ==
    {st.storage}
    \cup { st.modules[method].current_storage : method \in DOMAIN st.modules }
    \cup { st.modules[method].playground : method \in DOMAIN st.modules }
    \cup { st.views[observer] : observer \in DOMAIN st.views }
    \cup { new_tasks[t].storage : t \in { u \in 1..Len(new_tasks) :
                                            new_tasks[u].state \in {"idle", "running"} } }

\* The content of an object nothing refers to any more.
Freed == [create_storage EXCEPT !.tree = "freed"]

\* The state of the storage module after an operation: the objects nothing
\* refers to are freed.
Commit(st, new_tasks) ==
    /\ _storage' = st.storage
    /\ models' = [id \in 1..Len(st.models) |->
                    IF id \in Referenced(st, new_tasks) THEN st.models[id] ELSE Freed]
    /\ modules' = st.modules
    /\ views' = st.views
    /\ tasks' = new_tasks

\* The storage property read by a caller of the module.
GetStorage ==
    /\ LET st == storage_property(Here)
       IN /\ Bounded(st)
          /\ Commit(st, tasks)
          /\ ret' = [NoRet EXCEPT !.op = "storage", !.num = st.storage, !.out = st.log]
    /\ UNCHANGED <<otherVars, created, diskSelectionVars, manualVars>>

\* reset_with_task(): the task holds the model it resets; called keeps the
\* constraints of the disk selection module at the time of the call.
ResetWithTaskIn(room, most) ==
    /\ Len(tasks) < most
    /\ LET st1 == storage_property(Here)
           copied == copy(st1, st1.storage)
           st2 == [copied.st EXCEPT !.models[copied.id] = set_up_storage(@)]
       IN /\ Len(st2.models) <= room
          /\ Commit(st2, Append(tasks, [storage |-> copied.id, state |-> "idle",
                                        called |-> DiskSelection,
                                        runs |-> 0, swaps |-> 0]))
          /\ ret' = [NoRet EXCEPT !.op = "reset_with_task", !.num = Len(tasks) + 1,
                                  !.out = st2.log]
    /\ UNCHANGED <<otherVars, created, diskSelectionVars, manualVars>>

\* reset_with_task(), within the bounds of the model.
ResetWithTask == ResetWithTaskIn(MaxModels, MaxTasks)

\* (mutation of StartResetTask: a task that has finished is run again)
StartResetTask_again(t) ==
    /\ tasks[t].state # "running"
    /\ tasks' = [tasks EXCEPT ![t].state = "running", ![t].runs = @ + 1]
    /\ models' = [models EXCEPT ![tasks[t].storage].tree = "partial"]
    /\ ret' = [NoRet EXCEPT !.op = "StorageResetTask.start", !.num = t]
    /\ UNCHANGED <<otherVars, _storage, modules, views, created, diskSelectionVars, manualVars>>

\* StorageResetTask.run() starts: the scan of the devices changes the model
\* of the task. A task is run once; runs counts the runs of the task and
\* swaps the calls of the callback of its succeeded_signal.
StartResetTask(t) ==
    /\ tasks[t].state = "idle"
    /\ tasks' = [tasks EXCEPT ![t].state = "running", ![t].runs = @ + 1]
    /\ models' = [models EXCEPT ![tasks[t].storage].tree = "partial"]
    /\ ret' = [NoRet EXCEPT !.op = "StorageResetTask.start", !.num = t]
    /\ UNCHANGED <<otherVars, _storage, modules, views, created, diskSelectionVars, manualVars>>

\* StorageResetTask.run() raises: succeeded_signal is not emitted.
FailResetTask(t) ==
    /\ tasks[t].state = "running"
    /\ Commit(Here, [tasks EXCEPT ![t].state = "failed"])
    /\ ret' = [NoRet EXCEPT !.op = "StorageResetTask.run", !.num = t,
                            !.err = "StorageError"]
    /\ UNCHANGED <<otherVars, created, diskSelectionVars, manualVars>>

\* (mutation of on_reset_succeeded: the model is set without its callbacks)
on_reset_succeeded_silent(st, storage) == set_storage_silent(st, storage)

\* (mutation of on_reset_succeeded: a model that was made canonical after
\* the model of the task was created is kept)
on_reset_succeeded_newer(st, storage) ==
    set_storage(st, IF st.storage > storage THEN st.storage ELSE storage)

\* The callback reset_with_task() connects to succeeded_signal.
on_reset_succeeded(st, storage) == set_storage(st, storage)

\* StorageResetTask.run() returns: the model of the task is scanned, and
\* succeeded_signal calls set_storage with it.
SucceedResetTask(t) ==
    /\ tasks[t].state = "running"
    /\ LET scanned == [Here EXCEPT !.models[tasks[t].storage].tree = "reset"]
           st == on_reset_succeeded(scanned, tasks[t].storage)
       IN /\ Commit(st, [tasks EXCEPT ![t].state = "succeeded", ![t].swaps = @ + 1])
          /\ ret' = [NoRet EXCEPT !.op = "StorageResetTask.run", !.num = t,
                                  !.out = st.log]
    /\ UNCHANGED <<otherVars, created, diskSelectionVars, manualVars>>

\* PartitioningModule.storage: the playground of the module, a copy of the
\* model delivered to it, made when first asked for. The result is the new
\* state and the playground (0 when the module has no model:
\* UnavailableStorageError).
module_storage(st, method) ==
    IF st.modules[method].current_storage = 0
    THEN [st |-> st, id |-> 0]
    ELSE IF st.modules[method].playground # 0
         THEN [st |-> st, id |-> st.modules[method].playground]
         ELSE LET copied == copy(st, st.modules[method].current_storage)
              IN [st |-> [copied.st EXCEPT !.modules[method].playground = copied.id],
                  id |-> copied.id]

\* StorageValidateTask(storage).run(): does the model pass the checks?
is_valid(content) == content.tree = "valid"

\* configure_with_task() of a partitioning module and the run of its task:
\* the plan is scheduled in the playground, and is a valid one or not.
ConfigurePartitioningIn(method, plan, room) ==
    /\ LET got == module_storage(Here, method)
       IN IF got.id = 0
          THEN /\ ret' = [NoRet EXCEPT !.op = "configure_with_task", !.who = method,
                                       !.err = "UnavailableStorageError"]
               /\ UNCHANGED <<models, modules>>
          ELSE /\ Len(got.st.models) <= room
               /\ models' = [got.st.models EXCEPT ![got.id].tree = plan]
               /\ modules' = got.st.modules
               /\ ret' = [NoRet EXCEPT !.op = "configure_with_task", !.who = method,
                                       !.num = got.id]
    /\ UNCHANGED <<otherVars, _storage, views, tasks, created, diskSelectionVars, manualVars>>

\* configure_with_task(), within the bounds of the model.
ConfigurePartitioning(method, plan) == ConfigurePartitioningIn(method, plan, MaxModels)

\* task.run() of the StorageValidateTask of apply_partitioning().
StorageValidateTask_run ==
    [fn |-> "StorageValidateTask.run", device |-> "", uuid |-> "", value |-> FALSE]

\* (mutation of apply_partitioning_checked: the partitioning is applied
\* before the validation raises)
apply_partitioning_eager(st, storage) ==
    LET copied == copy(st, storage)
    IN [st |-> set_storage(copied.st, copied.id),
        err |-> IF is_valid(st.models[storage]) THEN "" ELSE "InvalidStorageError",
        calls |-> <<StorageValidateTask_run>>]

\* apply_partitioning(): the validation of the model of the module, by one
\* run of a new StorageValidateTask, and the switch to a copy of it.
apply_partitioning_checked(st, storage) ==
    IF ~is_valid(st.models[storage])
    THEN [st |-> st, err |-> "InvalidStorageError", calls |-> <<StorageValidateTask_run>>]
    ELSE LET copied == copy(st, storage)
         IN [st |-> set_storage(copied.st, copied.id), err |-> "",
             calls |-> <<StorageValidateTask_run>>]

\* apply_partitioning(module)
ApplyPartitioningIn(method, room) ==
    /\ LET got == module_storage(Here, method)
           applied == IF got.id = 0
                      THEN [st |-> got.st, err |-> "UnavailableStorageError", calls |-> <<>>]
                      ELSE apply_partitioning_checked(got.st, got.id)
       IN /\ Len(applied.st.models) <= room
          /\ Commit(applied.st, tasks)
          /\ ret' = [NoRet EXCEPT !.op = "apply_partitioning", !.who = method,
                                  !.num = got.id, !.err = applied.err,
                                  !.out = applied.st.log, !.calls = applied.calls]
    /\ UNCHANGED <<otherVars, created, diskSelectionVars, manualVars>>

\* apply_partitioning(module), within the bounds of the model.
ApplyPartitioning(method) == ApplyPartitioningIn(method, MaxModels)

\* DiskSelectionModule.set_ignored_disks(drives)
SetIgnoredDisks(drives) ==
    /\ ignored_disks' = drives
    /\ ret' = [NoRet EXCEPT !.op = "set_ignored_disks"]
    /\ UNCHANGED <<otherVars, _storage, models, modules, views, tasks, created, disk_selection,
                   exclusive_disks, protected_devices, disk_images, manualVars>>

\* DiskSelectionModule.set_exclusive_disks(drives)
SetExclusiveDisks(drives) ==
    /\ exclusive_disks' = drives
    /\ ret' = [NoRet EXCEPT !.op = "set_exclusive_disks"]
    /\ UNCHANGED <<otherVars, _storage, models, modules, views, tasks, created, disk_selection,
                   ignored_disks, protected_devices, disk_images, manualVars>>

\* DiskSelectionModule.set_disk_images(images)
SetDiskImages(images) ==
    /\ disk_images' = images
    /\ ret' = [NoRet EXCEPT !.op = "set_disk_images"]
    /\ UNCHANGED <<otherVars, _storage, models, modules, views, tasks, created, disk_selection,
                   ignored_disks, exclusive_disks, protected_devices, manualVars>>

\* on_protected_devices_changed(protected_devices): the models after it.
on_protected_devices_changed(devices) ==
    IF _storage = 0
    THEN models
    ELSE [models EXCEPT ![_storage].protected_devices = devices]

\* DiskSelectionModule.set_protected_devices(devices): emits
\* protected_devices_changed, which calls on_protected_devices_changed.
SetProtectedDevices(devices) ==
    /\ protected_devices' = devices
    /\ models' = on_protected_devices_changed(devices)
    /\ ret' = [NoRet EXCEPT !.op = "set_protected_devices"]
    /\ UNCHANGED <<otherVars, _storage, modules, views, tasks, created, disk_selection,
                   ignored_disks, exclusive_disks, disk_images, manualVars>>

\* The values of the selected disks of the disk selection module.
SelectedDisksValues == {<<>>, <<1>>}

\* DiskSelectionModule.set_selected_disks(drives): emits
\* selected_disks_changed, which calls on_selected_disks_changed of the
\* connected partitioning modules; selected_disks is what the manual
\* partitioning module holds.
SetSelectedDisks(drives) ==
    /\ disk_selection' = drives
    /\ modules' = [module \in DOMAIN modules |->
                    IF module \in set(selected_disks_changed)
                    THEN on_selected_disks_changed(modules[module], drives)
                    ELSE modules[module]]
    /\ selected_disks' = modules'["MANUAL"].selected_disks
    /\ ret' = [NoRet EXCEPT !.op = "set_selected_disks"]
    /\ UNCHANGED <<otherVars, _storage, models, views, tasks, created, leaves, requests, enabled,
                   ignored_disks, exclusive_disks, protected_devices, disk_images>>

\* PartitioningFactory.create_partitioning(method): a new module.
PartitioningModule ==
    [current_storage |-> 0, playground |-> 0, selected_disks |-> <<>>]

\* create_partitioning(method): the new module, named name, is given the
\* canonical model (None when there is none yet) and the selected disks.
create_partitioning(st, name) ==
    LET added == [st EXCEPT !.modules =
                    [module \in DOMAIN st.modules \cup {name} |->
                        IF module = name THEN PartitioningModule ELSE st.modules[module]]]
        updated == on_storage_reset(added, name, st.storage)
    IN [updated EXCEPT !.modules[name] = on_selected_disks_changed(@, disk_selection)]

\* create_partitioning(method), called after __init__: the callbacks of the
\* new module are connected to the two signals.
CreatePartitioning(method) ==
    /\ Len(created) < MaxCreated
    /\ LET name == CreatedNames[Len(created) + 1]
       IN /\ Commit(create_partitioning(Here, name), tasks)
          /\ created' = Append(created, name)
          /\ ret' = [NoRet EXCEPT !.op = "create_partitioning", !.who = name]
    /\ UNCHANGED <<otherVars, diskSelectionVars, manualVars>>

\* The tasks install_with_tasks() and teardown_with_tasks() create.
InstallationTasks ==
    <<"ActivateFilesystemsTask", "MountFilesystemsTask", "WriteConfigurationTask">>
TeardownTasks == <<"UnmountFilesystemsTask", "TeardownDiskImagesTask">>

\* (mutation of with_tasks: the tasks are run on the model before they are
\* returned)
with_tasks_run(st, names) ==
    LET st1 == storage_property(st)
    IN [st |-> [st1 EXCEPT !.models[st1.storage].tree = names[Len(names)]],
        tasks |-> [i \in 1..Len(names) |-> [name |-> names[i], storage |-> st1.storage]]]

\* install_with_tasks(), teardown_with_tasks(): the storage property is
\* read once and every task is constructed with the model it returned.
with_tasks(st, names) ==
    LET st1 == storage_property(st)
    IN [st |-> st1,
        tasks |-> [i \in 1..Len(names) |-> [name |-> names[i], storage |-> st1.storage]]]

\* install_with_tasks()
InstallWithTasks ==
    /\ LET made == with_tasks(Here, InstallationTasks)
       IN /\ Bounded(made.st)
          /\ Commit(made.st, tasks)
          /\ ret' = [NoRet EXCEPT !.op = "install_with_tasks", !.tasks = made.tasks,
                                  !.out = made.st.log]
    /\ UNCHANGED <<otherVars, created, diskSelectionVars, manualVars>>

\* teardown_with_tasks()
TeardownWithTasks ==
    /\ LET made == with_tasks(Here, TeardownTasks)
       IN /\ Bounded(made.st)
          /\ Commit(made.st, tasks)
          /\ ret' = [NoRet EXCEPT !.op = "teardown_with_tasks", !.tasks = made.tasks,
                                  !.out = made.st.log]
    /\ UNCHANGED <<otherVars, created, diskSelectionVars, manualVars>>

\* ------------------------------------------------------------------------
\* Network initialization tasks (modules/network/initialization.py).
\* ------------------------------------------------------------------------

\* The interface names of the devices, and the uuids of their connections.
Ifaces == <<"ens3", "ens4", "ens5", "ens6">>
Uuids ==
    << <<"ens3-1", "ens3-2">>, <<"ens4-1", "ens4-2">>,
       <<"ens5-1", "ens5-2">>, <<"ens6-1", "ens6-2">> >>

\* No ifcfg file (get_ifcfg_file_of_device returns None), no active
\* connection (get_active_connection returns None).
NoIfcfg == [exists |-> FALSE, uuid |-> "", is_from_kickstart |-> FALSE]
NoActive == [exists |-> FALSE, uuid |-> "", interface_name |-> ""]

\* The kinds of devices: is the device a wired one, its available
\* connections (bound: the connection has the interface name of the
\* device; master: the master of a slave connection), which connection is
\* the active one (0: none, Len(cons) + 1: one that is not available) and
\* where its ifcfg file comes from.
NetDeviceKinds == {
    [wired |-> TRUE, cons |-> <<>>, active |-> 0, ifcfg |-> "none"],
    [wired |-> TRUE, cons |-> <<[bound |-> TRUE, master |-> ""]>>,
     active |-> 1, ifcfg |-> "initramfs"],
    [wired |-> TRUE, cons |-> <<[bound |-> FALSE, master |-> ""]>>,
     active |-> 1, ifcfg |-> "none"],
    [wired |-> TRUE, cons |-> <<[bound |-> TRUE, master |-> "bond0"]>>,
     active |-> 0, ifcfg |-> "none"],
    [wired |-> FALSE, cons |-> <<[bound |-> TRUE, master |-> ""]>>,
     active |-> 1, ifcfg |-> "none"],
    [wired |-> TRUE, cons |-> <<[bound |-> TRUE, master |-> ""], [bound |-> FALSE, master |-> ""]>>,
     active |-> 2, ifcfg |-> "initramfs"],
    [wired |-> TRUE, cons |-> <<[bound |-> TRUE, master |-> ""], [bound |-> TRUE, master |-> ""]>>,
     active |-> 1, ifcfg |-> "kickstart"],
    [wired |-> TRUE, cons |-> <<[bound |-> TRUE, master |-> ""], [bound |-> TRUE, master |-> "bond0"]>>,
     active |-> 0, ifcfg |-> "none"],
    [wired |-> TRUE, cons |-> <<[bound |-> FALSE, master |-> ""], [bound |-> TRUE, master |-> ""]>>,
     active |-> 1, ifcfg |-> "none"],
    [wired |-> TRUE, cons |-> <<[bound |-> FALSE, master |-> ""], [bound |-> FALSE, master |-> ""]>>,
     active |-> 3, ifcfg |-> "none"],
    [wired |-> TRUE, cons |-> <<[bound |-> TRUE, master |-> ""], [bound |-> TRUE, master |-> ""]>>,
     active |-> 2, ifcfg |-> "none"],
    [wired |-> TRUE, cons |-> <<>>, active |-> 0, ifcfg |-> "kickstart"]
}

\* The device at position i of the devices of the client, of the given
\* kind: its interface name, its available connections, its active
\* connection and the ifcfg file get_ifcfg_file_of_device finds for it (the
\* file of its first connection).
NetDevice(i, kind) ==
    LET cons == [k \in 1..Len(kind.cons) |->
                    [uuid |-> Uuids[i][k],
                     interface_name |-> IF kind.cons[k].bound THEN Ifaces[i] ELSE "",
                     master |-> kind.cons[k].master]]
    IN [iface |-> Ifaces[i], wired |-> kind.wired, cons |-> cons,
        active |-> IF kind.active = 0 THEN NoActive
                   ELSE IF kind.active <= Len(cons)
                        THEN [exists |-> TRUE, uuid |-> cons[kind.active].uuid,
                              interface_name |-> cons[kind.active].interface_name]
                        ELSE [exists |-> TRUE, uuid |-> "other", interface_name |-> Ifaces[i]],
        ifcfg |-> IF kind.ifcfg = "none" THEN NoIfcfg
                  ELSE [exists |-> TRUE, uuid |-> Uuids[i][1],
                        is_from_kickstart |-> (kind.ifcfg = "kickstart")]]

\* The lists of devices a client returns from get_devices().
NetDeviceLists(n) ==
    UNION { { [i \in 1..len |-> NetDevice(i, kinds[i])] :
                kinds \in [1..len -> NetDeviceKinds] } : len \in 0..n }

\* The network commands of a kickstart file: the device as written, the name
\* get_device_name_from_network_data resolves it to (None: not found), and
\* the options the tasks read.
NetworkDataPool == {
    [device |-> "ens3", device_name |-> "ens3", essid |-> "", activate |-> TRUE,
     onboot |-> TRUE, vlanid |-> "", bondslaves |-> <<>>, teamslaves |-> <<>>,
     bridgeslaves |-> <<>>],
    [device |-> "ens3", device_name |-> "ens3", essid |-> "", activate |-> FALSE,
     onboot |-> FALSE, vlanid |-> "", bondslaves |-> <<>>, teamslaves |-> <<>>,
     bridgeslaves |-> <<>>],
    [device |-> "bond0", device_name |-> "bond0.222", essid |-> "", activate |-> FALSE,
     onboot |-> TRUE, vlanid |-> "222", bondslaves |-> <<"ens9", "ens10">>,
     teamslaves |-> <<>>, bridgeslaves |-> <<>>],
    [device |-> "bond0", device_name |-> "bond0", essid |-> "", activate |-> TRUE,
     onboot |-> FALSE, vlanid |-> "", bondslaves |-> <<"ens9", "ens10">>,
     teamslaves |-> <<>>, bridgeslaves |-> <<>>],
    [device |-> "team0", device_name |-> "team0.222", essid |-> "", activate |-> FALSE,
     onboot |-> FALSE, vlanid |-> "222", bondslaves |-> <<>>,
     teamslaves |-> <<"ens9", "ens10">>, bridgeslaves |-> <<>>],
    [device |-> "br0", device_name |-> "br0.222", essid |-> "", activate |-> TRUE,
     onboot |-> TRUE, vlanid |-> "222", bondslaves |-> <<>>, teamslaves |-> <<>>,
     bridgeslaves |-> <<"ens9">>],
    [device |-> "ens3", device_name |-> "ens3.222", essid |-> "", activate |-> TRUE,
     onboot |-> TRUE, vlanid |-> "222", bondslaves |-> <<>>, teamslaves |-> <<>>,
     bridgeslaves |-> <<>>],
    [device |-> "wlan0", device_name |-> "wlan0", essid |-> "home", activate |-> TRUE,
     onboot |-> TRUE, vlanid |-> "", bondslaves |-> <<>>, teamslaves |-> <<>>,
     bridgeslaves |-> <<>>],
    [device |-> "ens99", device_name |-> None, essid |-> "", activate |-> TRUE,
     onboot |-> FALSE, vlanid |-> "", bondslaves |-> <<>>, teamslaves |-> <<>>,
     bridgeslaves |-> <<>>]
}

\* The four tasks.
NetworkTasks ==
    {"ApplyKickstartTask", "ConsolidateInitramfsConnectionsTask",
     "SetRealOnbootValuesFromKickstartTask", "DumpMissingIfcfgFilesTask"}

\* What a run has done so far: the list it is building, the calls it made
\* on the NetworkManager client and on the ifcfg files, and the error that
\* ended it ("": none).
NoRun == [out |-> <<>>, calls |-> <<>>, err |-> ""]

\* The run calls fn for a device (or an interface name), a connection (or
\* a uuid) and a value.
Call(run, fn, device, uuid, value) ==
    [run EXCEPT !.calls = Append(@, [fn |-> fn, device |-> device, uuid |-> uuid,
                                     value |-> value])]

\* The run adds a device name to its list.
Add(run, device_name) == [run EXCEPT !.out = Append(@, device_name)]

\* nm_client.get_device_by_iface(iface): the position of the device (0: None).
get_device_by_iface(iface) ==
    IF \E i \in 1..Len(nm_client.devices) : nm_client.devices[i].iface = iface
    THEN CHOOSE i \in 1..Len(nm_client.devices) : nm_client.devices[i].iface = iface
    ELSE 0

\* get_device_name_from_network_data(nm_client, network_data, ...)
get_device_name_from_network_data(data) == data.device_name

\* get_ifcfg_file_of_device(nm_client, iface)
get_ifcfg_file_of_device(iface) ==
    IF get_device_by_iface(iface) = 0 THEN NoIfcfg
    ELSE nm_client.devices[get_device_by_iface(iface)].ifcfg

\* find_ifcfg_uuid_of_device(nm_client, iface) or ""
find_ifcfg_uuid_of_device(iface) == get_ifcfg_file_of_device(iface).uuid

\* update_onboot_value(uuid, onboot): is there an ifcfg file to update?
update_onboot_value(uuid) ==
    \E i \in 1..Len(nm_client.devices) :
        nm_client.devices[i].ifcfg.exists /\ nm_client.devices[i].ifcfg.uuid = uuid

\* update_iface_setting_values(nm_client, iface, values): the number of
\* connections of the device it updated.
update_iface_setting_values(iface) ==
    IF get_device_by_iface(iface) = 0 THEN 0
    ELSE Len(nm_client.devices[get_device_by_iface(iface)].cons)

\* update_slaves_onboot_value(nm_client, master, onboot, uuid): the names
\* of the devices with a slave connection of the master.
update_slaves_onboot_value(master, uuid) ==
    LET slaves == SelectSeq(nm_client.devices,
                            LAMBDA device : \E k \in 1..Len(device.cons) :
                                /\ device.cons[k].master # ""
                                /\ device.cons[k].master \in {master, uuid})
    IN [i \in 1..Len(slaves) |-> slaves[i].iface]

\* ensure_active_connection_for_device(nm_client, uuid, iface): is there
\* such a connection of the device to activate?
ensure_active_connection_for_device(uuid, iface) ==
    /\ get_device_by_iface(iface) # 0
    /\ \E k \in 1..Len(nm_client.devices[get_device_by_iface(iface)].cons) :
          nm_client.devices[get_device_by_iface(iface)].cons[k].uuid = uuid

\* (mutation of guard_by_system_configuration: the configuration is not read)
guard_by_system_configuration_open(task, run) == run

\* guard_by_system_configuration(return_value)(function): the wrapped
\* function returns the list of the decorator when the network can not be
\* configured, and calls the function otherwise.
guard_by_system_configuration(task, run) ==
    IF ~can_configure_network
    THEN [NoRun EXCEPT !.out = return_value[task]]
    ELSE run

\* (mutation of apply_kickstart: a device with an ifcfg file from kickstart
\* is added whether its connection was activated or not)
apply_kickstart_recording(run, data) ==
    IF data.essid # "" THEN run
    ELSE LET device_name == get_device_name_from_network_data(data)
             resolved == Call(run, "get_device_name_from_network_data", data.device, "", FALSE)
             ifcfg_file == get_ifcfg_file_of_device(device_name)
             found == Call(resolved, "get_ifcfg_file_of_device", device_name, "", FALSE)
         IN IF device_name = None THEN resolved
            ELSE IF ifcfg_file.exists /\ ifcfg_file.is_from_kickstart
                 THEN IF data.activate
                      THEN Add(Call(found, "ensure_active_connection_for_device",
                                    device_name, ifcfg_file.uuid, FALSE), device_name)
                      ELSE Add(found, device_name)
                 ELSE IF ifcfg_file.exists
                      THEN LET updated ==
                                 Call(Call(Add(found, device_name),
                                           "get_connection_by_uuid", "", ifcfg_file.uuid, FALSE),
                                      "update_connection_from_ksdata", device_name,
                                      ifcfg_file.uuid, FALSE)
                           IN IF data.activate
                              THEN Call(Call(updated, "get_device_by_iface", device_name,
                                             "", FALSE),
                                        "activate_connection_async", device_name,
                                        ifcfg_file.uuid, FALSE)
                              ELSE updated
                      ELSE Call(Add(found, device_name), "add_connection_from_ksdata",
                                device_name, "", data.activate)

\* ApplyKickstartTask.run(): the body of the loop for one network command.
apply_kickstart(run, data) ==
    IF data.essid # "" THEN run
    ELSE LET device_name == get_device_name_from_network_data(data)
             resolved == Call(run, "get_device_name_from_network_data", data.device, "", FALSE)
         IN IF device_name = None THEN resolved
            ELSE LET ifcfg_file == get_ifcfg_file_of_device(device_name)
                     found == Call(resolved, "get_ifcfg_file_of_device", device_name, "", FALSE)
                 IN IF ifcfg_file.exists /\ ifcfg_file.is_from_kickstart
                    THEN IF data.activate
                         THEN LET ensured == Call(found, "ensure_active_connection_for_device",
                                                  device_name, ifcfg_file.uuid, FALSE)
                              IN IF ensure_active_connection_for_device(ifcfg_file.uuid,
                                                                        device_name)
                                 THEN Add(ensured, device_name)
                                 ELSE ensured
                         ELSE found
                    ELSE IF ifcfg_file.exists
                         THEN LET updated ==
                                    Call(Call(Add(found, device_name),
                                              "get_connection_by_uuid", "", ifcfg_file.uuid, FALSE),
                                         "update_connection_from_ksdata", device_name,
                                         ifcfg_file.uuid, FALSE)
                              IN IF data.activate
                                 THEN Call(Call(updated, "get_device_by_iface", device_name,
                                                "", FALSE),
                                           "activate_connection_async", device_name,
                                           ifcfg_file.uuid, FALSE)
                                 ELSE updated
                         ELSE Call(Add(found, device_name), "add_connection_from_ksdata",
                                   device_name, "", data.activate)

\* (mutation of apply_kickstart_loop: the loop ends at the first network
\* command that is skipped)
RECURSIVE apply_kickstart_loop_break(_, _)
apply_kickstart_loop_break(run, data_list) ==
    IF data_list = <<>> THEN run
    ELSE IF \/ Head(data_list).essid # ""
            \/ get_device_name_from_network_data(Head(data_list)) = None
         THEN apply_kickstart(run, Head(data_list))
         ELSE apply_kickstart_loop_break(apply_kickstart(run, Head(data_list)),
                                         Tail(data_list))

RECURSIVE apply_kickstart_loop(_, _)
apply_kickstart_loop(run, data_list) ==
    IF data_list = <<>> THEN run
    ELSE apply_kickstart_loop(apply_kickstart(run, Head(data_list)), Tail(data_list))

\* (mutation of ApplyKickstartTask_run: the client is used without being
\* looked at)
ApplyKickstartTask_run_unchecked ==
    guard_by_system_configuration("ApplyKickstartTask",
        apply_kickstart_loop(NoRun, network_data))

\* ApplyKickstartTask.run()
ApplyKickstartTask_run ==
    guard_by_system_configuration("ApplyKickstartTask",
        IF network_data = <<>> THEN NoRun
        ELSE IF ~nm_client.present THEN NoRun
             ELSE apply_kickstart_loop(NoRun, network_data))

\* (mutation of _select_persistent_connection_for_iface: the first connection
\* is selected when no connection has the interface name)
_select_persistent_connection_for_iface_any(iface, cons) ==
    IF \E k \in 1..Len(cons) : cons[k].interface_name = iface
    THEN CHOOSE k \in 1..Len(cons) :
            /\ cons[k].interface_name = iface
            /\ \A j \in 1..(k - 1) : cons[j].interface_name # iface
    ELSE 1

\* ConsolidateInitramfsConnectionsTask._select_persistent_connection_for_iface():
\* the position in cons of the first connection with the interface name of
\* the device, 0 for None.
_select_persistent_connection_for_iface(iface, cons) ==
    IF \E k \in 1..Len(cons) : cons[k].interface_name = iface
    THEN CHOOSE k \in 1..Len(cons) :
            /\ cons[k].interface_name = iface
            /\ \A j \in 1..(k - 1) : cons[j].interface_name # iface
    ELSE 0

\* (mutation of ensure_only: the uuid of the ifcfg file is used as it is)
ensure_only_uuid(run, con_for_iface, iface) ==
    Add(Call(run, "ensure_active_connection_for_device", iface, con_for_iface.uuid, TRUE),
        iface)

\* The end of the body of the loop of ConsolidateInitramfsConnectionsTask.run():
\* con_for_iface.get_uuid() is evaluated first and raises AttributeError when
\* con_for_iface is the uuid of an ifcfg file, a string; then the
\* connection is made the active one and the device is added.
ensure_only(run, con_for_iface, iface) ==
    IF con_for_iface.type = "str"
    THEN [run EXCEPT !.err = "AttributeError"]
    ELSE Add(Call(run, "ensure_active_connection_for_device", iface, con_for_iface.uuid, TRUE),
             iface)

\* (mutation of consolidate: the slave connections are not looked for)
consolidate_slaves_too(run, device) ==
    IF Len(device.cons) < 2 THEN run
    ELSE LET ifcfg_file == get_ifcfg_file_of_device(device.iface)
             found == Call(run, "get_ifcfg_file_of_device", device.iface, "", FALSE)
             con == _select_persistent_connection_for_iface(device.iface, device.cons)
         IN IF ~ifcfg_file.exists
            THEN IF con = 0 THEN found
                 ELSE ensure_only(found, [type |-> "connection", uuid |-> device.cons[con].uuid],
                                  device.iface)
            ELSE IF ifcfg_file.is_from_kickstart THEN found
                 ELSE ensure_only(found, [type |-> "str", uuid |-> ifcfg_file.uuid],
                                  device.iface)

\* ConsolidateInitramfsConnectionsTask.run(): the body of the loop for one
\* device.
consolidate(run, device) ==
    IF Len(device.cons) < 2 THEN run
    ELSE IF \E k \in 1..Len(device.cons) : device.cons[k].master # "" THEN run
    ELSE LET ifcfg_file == get_ifcfg_file_of_device(device.iface)
             found == Call(run, "get_ifcfg_file_of_device", device.iface, "", FALSE)
             con == _select_persistent_connection_for_iface(device.iface, device.cons)
         IN IF ~ifcfg_file.exists
            THEN IF con = 0 THEN found
                 ELSE ensure_only(found, [type |-> "connection", uuid |-> device.cons[con].uuid],
                                  device.iface)
            ELSE IF ifcfg_file.is_from_kickstart THEN found
                 ELSE ensure_only(found, [type |-> "str", uuid |-> ifcfg_file.uuid],
                                  device.iface)

\* The loop over the devices: an error ends it.
RECURSIVE consolidate_loop(_, _)
consolidate_loop(run, devices) ==
    IF devices = <<>> \/ run.err # "" THEN run
    ELSE consolidate_loop(consolidate(run, Head(devices)), Tail(devices))

\* ConsolidateInitramfsConnectionsTask.run()
ConsolidateInitramfsConnectionsTask_run ==
    guard_by_system_configuration("ConsolidateInitramfsConnectionsTask",
        IF ~nm_client.present THEN NoRun
        ELSE consolidate_loop(Call(NoRun, "get_devices", "", "", FALSE), nm_client.devices))

\* Does the network command define both a vlan and a bond or a team?
vlan_over_master(data) ==
    data.vlanid # "" /\ (data.bondslaves # <<>> \/ data.teamslaves # <<>>)

\* (mutation of devices_to_update: the master is not added)
devices_to_update_single(data) == <<get_device_name_from_network_data(data)>>

\* SetRealOnbootValuesFromKickstartTask.run(): the devices to update for one
\* network command.
devices_to_update(data) ==
    IF vlan_over_master(data)
    THEN <<get_device_name_from_network_data(data), data.device>>
    ELSE <<get_device_name_from_network_data(data)>>

\* The master of the slaves of the network command.
master_of(data) ==
    IF vlan_over_master(data) THEN data.device
    ELSE get_device_name_from_network_data(data)

\* The ONBOOT value is written to the ifcfg file of the device, and the
\* device is added when a file was updated.
update_ifcfg(run, data, devname) ==
    LET uuid == find_ifcfg_uuid_of_device(devname)
        written == Call(Call(run, "find_ifcfg_uuid_of_device", devname, "", FALSE),
                        "update_onboot_value", devname, uuid, data.onboot)
    IN IF ~update_onboot_value(uuid) THEN written ELSE Add(written, devname)

\* (mutation of update_onboot: the connections of the device are updated
\* whatever the ONBOOT value is)
update_onboot_live(run, data, devname) ==
    LET n_cons == update_iface_setting_values(devname)
        updated == Call(run, "update_iface_setting_values", devname, "", data.onboot)
    IN IF n_cons > 1
       THEN update_ifcfg(updated, data, devname)
       ELSE Add(updated, devname)

\* (mutation of update_onboot: the ifcfg file is updated whenever the
\* number of connections found is not one)
update_onboot_not_one(run, data, devname) ==
    IF data.onboot
    THEN update_ifcfg(run, data, devname)
    ELSE LET n_cons == update_iface_setting_values(devname)
             updated == Call(run, "update_iface_setting_values", devname, "", data.onboot)
         IN IF n_cons # 1
            THEN update_ifcfg(updated, data, devname)
            ELSE Add(updated, devname)

\* The body of the loop over devices_to_update.
update_onboot(run, data, devname) ==
    IF data.onboot
    THEN update_ifcfg(run, data, devname)
    ELSE LET n_cons == update_iface_setting_values(devname)
             updated == Call(run, "update_iface_setting_values", devname, "", data.onboot)
         IN IF n_cons # 1 /\ n_cons > 1
            THEN update_ifcfg(updated, data, devname)
            ELSE Add(updated, devname)

RECURSIVE update_onboot_loop(_, _, _)
update_onboot_loop(run, data, devnames) ==
    IF devnames = <<>> THEN run
    ELSE update_onboot_loop(update_onboot(run, data, Head(devnames)), data, Tail(devnames))

\* The slaves of the master of the network command are updated.
update_slaves(run, data) ==
    IF data.bondslaves # <<>> \/ data.teamslaves # <<>> \/ data.bridgeslaves # <<>>
    THEN LET master == master_of(data)
             device == get_device_by_iface(master)
             uuid == IF device # 0 /\ Len(nm_client.devices[device].cons) = 1
                     THEN nm_client.devices[device].cons[1].uuid
                     ELSE ""
             called == Call(Call(run, "get_device_by_iface", master, "", FALSE),
                            "update_slaves_onboot_value", master, uuid, data.onboot)
         IN [called EXCEPT !.out = @ \o update_slaves_onboot_value(master, uuid)]
    ELSE run

\* SetRealOnbootValuesFromKickstartTask.run(): the body of the loop for one
\* network command.
set_real_onboot(run, data) ==
    LET resolved == Call(run, "get_device_name_from_network_data", data.device, "", FALSE)
    IN update_slaves(update_onboot_loop(resolved, data, devices_to_update(data)), data)

RECURSIVE set_real_onboot_loop(_, _)
set_real_onboot_loop(run, data_list) ==
    IF data_list = <<>> THEN run
    ELSE set_real_onboot_loop(set_real_onboot(run, Head(data_list)), Tail(data_list))

\* SetRealOnbootValuesFromKickstartTask.run()
SetRealOnbootValuesFromKickstartTask_run ==
    guard_by_system_configuration("SetRealOnbootValuesFromKickstartTask",
        IF ~nm_client.present THEN NoRun
        ELSE IF network_data = <<>> THEN NoRun
             ELSE set_real_onboot_loop(NoRun, network_data))

\* (mutation of _select_persistent_connection_for_device: the active
\* connection is not looked at)
_select_persistent_connection_for_device_first(device) ==
    _select_persistent_connection_for_iface(device.iface, device.cons)

\* DumpMissingIfcfgFilesTask._select_persistent_connection_for_device: the
\* active connection when it has the interface name of the device and is
\* one of the available connections, otherwise the first connection with
\* the interface name (0: None).
_select_persistent_connection_for_device(device) ==
    IF /\ device.active.exists
       /\ device.active.interface_name = device.iface
       /\ \E k \in 1..Len(device.cons) : device.cons[k].uuid = device.active.uuid
    THEN CHOOSE k \in 1..Len(device.cons) : device.cons[k].uuid = device.active.uuid
    ELSE _select_persistent_connection_for_iface(device.iface, device.cons)

\* _update_connection(con, iface) and con.commit_changes(True, None)
dump_connection(run, device, con) ==
    Call(Call(run, "bound_hwaddr_of_device", device.iface, device.cons[con].uuid, FALSE),
         "commit_changes", device.iface, device.cons[con].uuid, TRUE)

\* DumpMissingIfcfgFilesTask.run(): the body of the loop for one device.
dump_missing_ifcfg(run, device) ==
    IF ~device.wired THEN run
    ELSE LET found == Call(run, "get_ifcfg_file_of_device", device.iface, "", FALSE)
             n_cons == Len(device.cons)
             device_is_slave == \E k \in 1..n_cons : device.cons[k].master # ""
         IN IF get_ifcfg_file_of_device(device.iface).exists THEN found
            ELSE IF n_cons = 0
                 THEN Add(Call(found, "add_connection_from_ksdata", device.iface, "", FALSE),
                          device.iface)
                 ELSE IF n_cons = 1
                      THEN IF device_is_slave THEN found
                           ELSE Add(dump_connection(found, device, 1), device.iface)
                      ELSE IF ~device_is_slave
                           THEN LET con == _select_persistent_connection_for_device(device)
                                IN IF con = 0 THEN found
                                   ELSE Add(dump_connection(found, device, con), device.iface)
                           ELSE Add(found, device.iface)

RECURSIVE dump_missing_ifcfg_loop(_, _)
dump_missing_ifcfg_loop(run, devices) ==
    IF devices = <<>> THEN run
    ELSE dump_missing_ifcfg_loop(dump_missing_ifcfg(run, Head(devices)), Tail(devices))

\* DumpMissingIfcfgFilesTask.run()
DumpMissingIfcfgFilesTask_run ==
    guard_by_system_configuration("DumpMissingIfcfgFilesTask",
        IF ~nm_client.present THEN NoRun
        ELSE dump_missing_ifcfg_loop(Call(NoRun, "get_devices", "", "", FALSE),
                                     nm_client.devices))

\* run() of a task: what it returns (nothing when it raises), the error it
\* raises and the calls it made.
RunTask(task, run) ==
    /\ ret' = [NoRet EXCEPT !.op = "run", !.who = task,
                            !.out = IF run.err = "" THEN run.out ELSE <<>>,
                            !.err = run.err, !.calls = run.calls]
    /\ UNCHANGED <<manualVars, storageVars, networkVars, spokeVars, addonVars, bootloaderVars>>

ApplyKickstartRun == RunTask("ApplyKickstartTask", ApplyKickstartTask_run)

\* The number of names a caller adds to the list a network task returned.
MaxAppended == 1

\* The caller of run() adds a device name to the list run() returned. When
\* the network can not be configured that list is the list of the
\* decorator (guard_by_system_configuration returns return_value itself),
\* otherwise it is a list run() created.
CallerAppends ==
    /\ ret.op = "run"
    /\ ret.err = ""
    /\ Len(ret.out) < MaxAppended
    /\ return_value' = IF ~can_configure_network
                       THEN [return_value EXCEPT ![ret.who] = Append(@, "ens3")]
                       ELSE return_value
    /\ ret' = [NoRet EXCEPT !.op = "append", !.who = ret.who,
                            !.out = Append(ret.out, "ens3")]
    /\ UNCHANGED <<manualVars, storageVars, spokeVars, addonVars, bootloaderVars,
                   can_configure_network, nm_client, network_data>>

ConsolidateInitramfsConnectionsRun ==
    RunTask("ConsolidateInitramfsConnectionsTask", ConsolidateInitramfsConnectionsTask_run)

SetRealOnbootValuesFromKickstartRun ==
    RunTask("SetRealOnbootValuesFromKickstartTask", SetRealOnbootValuesFromKickstartTask_run)

DumpMissingIfcfgFilesRun ==
    RunTask("DumpMissingIfcfgFilesTask", DumpMissingIfcfgFilesTask_run)

\* ------------------------------------------------------------------------
\* The addons of the kickstart file (pyanaconda/addons.py).
\* ------------------------------------------------------------------------

MaxAddonLines == 2

MaxHeaderArgs == 3

PLACEHOLDER_NAME == "ADDON_placeholder"

\* The addon ids written in the %addon headers.
AddonIds == {"com_example_foo", "foo_addon"}

\* The arguments written after the addon id.
HeaderArgs == {<<>>, <<"--x">>, <<"--x", "--y">>}

\* The lines of the body of a section, each one with its end of line.
AddonLines == {"a\n", "b\n"}

\* The header lines the parser hands over, split into arguments: the
\* first one is %addon and the second one the addon id.
HeaderLines ==
    {<<"%addon">>}
    \cup { <<"%addon", id>> \o args : id \in AddonIds \cup {""}, args \in HeaderArgs }

\* AddonData.__init__(name). A text is the list of the strings it is the
\* concatenation of.
AddonData(name) == [name |-> name, content |-> <<>>, header_args |-> <<>>]

\* " ".join(args)
Join(args) ==
    IF args = <<>> THEN <<>>
    ELSE [i \in 1..(2 * Len(args) - 1) |-> IF i % 2 = 1 THEN args[(i + 1) \div 2] ELSE " "]

\* AddonData.__str__(): "%%addon %s %s\n%s%%end\n" of the name, the header
\* arguments and the content.
__str__(addon) ==
    <<"%addon", " ", addon.name, " ">> \o addon.header_args \o <<"\n">>
        \o addon.content \o <<"%end", "\n">>

\* AddonData.handle_header(lineno, args)
handle_header(addon, args) ==
    IF args # <<>> THEN [addon EXCEPT !.header_args = @ \o Join(args)] ELSE addon

\* AddonData.handle_line(line)
handle_line(addon, line) == [addon EXCEPT !.content = Append(@, line)]

\* The position of the addon with the id in the registry (0: no such
\* attribute).
getattr(registry, id) ==
    IF \E i \in 1..Len(registry) : registry[i].id = id
    THEN CHOOSE i \in 1..Len(registry) : registry[i].id = id
    ELSE 0

hasattr(registry, id) == getattr(registry, id) # 0

\* The length of the texts of the addons of the registry, all together.
RECURSIVE Sum(_)
Sum(numbers) == IF numbers = <<>> THEN 0 ELSE Head(numbers) + Sum(Tail(numbers))

WrittenHeaderArgs(registry) ==
    Sum([i \in 1..Len(registry) |-> Len(registry[i].addon.header_args)])

WrittenContent(registry) ==
    Sum([i \in 1..Len(registry) |-> Len(registry[i].addon.content)])

\* args[2:]
SubArgs(args) == SubSeq(args, 3, Len(args))

\* AddonSection.handleHeader(lineno, args): the addon id is taken, a
\* placeholder is set for an addon that is not registered, and the
\* addon handles the rest of the arguments.
handleHeader(args) ==
    IF Len(args) < 2
    THEN [addons |-> addons, addon_id |-> addon_id, err |-> "IndexError"]
    ELSE LET id == args[2]
             registry == IF id # "" /\ ~hasattr(addons, id)
                         THEN Append(addons, [id |-> id, addon |-> AddonData(PLACEHOLDER_NAME)])
                         ELSE addons
             i == getattr(registry, id)
         IN IF i = 0
            THEN [addons |-> registry, addon_id |-> id, err |-> "AttributeError"]
            ELSE [addons |-> [registry EXCEPT
                                ![i].addon = handle_header(@, SubArgs(args))],
                  addon_id |-> id, err |-> ""]

AddonSectionHandleHeader ==
    \E args \in HeaderLines :
        LET handled == handleHeader(args)
        IN /\ WrittenHeaderArgs(handled.addons) <= MaxHeaderArgs
           /\ addons' = handled.addons
           /\ addon_id' = handled.addon_id
           /\ ret' = [NoRet EXCEPT !.op = "handleHeader", !.out = args,
                                   !.err = handled.err]
           /\ UNCHANGED <<manualVars, storageVars, networkVars, spokeVars, bootloaderVars>>

\* AddonSection.handleLine(line), with a handler: the line goes to the
\* addon of the section.
handleLine(line) ==
    IF addon_id \in {None, ""} THEN [addons |-> addons, err |-> ""]
    ELSE LET i == getattr(addons, addon_id)
         IN IF i = 0 THEN [addons |-> addons, err |-> "AttributeError"]
            ELSE [addons |-> [addons EXCEPT ![i].addon = handle_line(@, line)],
                  err |-> ""]

AddonSectionHandleLine ==
    \E line \in AddonLines :
        LET handled == handleLine(line)
        IN /\ WrittenContent(handled.addons) <= MaxAddonLines
           /\ addons' = handled.addons
           /\ ret' = [NoRet EXCEPT !.op = "handleLine", !.out = <<line>>,
                                   !.err = handled.err]
           /\ UNCHANGED <<manualVars, storageVars, networkVars, spokeVars, bootloaderVars, addon_id>>

\* AddonSection.finalize(): the addon of the section is looked up and its
\* finalize() does nothing.
AddonSectionFinalize ==
    /\ ret' = [NoRet EXCEPT !.op = "finalize",
                            !.err = IF addon_id = None THEN "TypeError"
                                    ELSE IF ~hasattr(addons, addon_id)
                                         THEN "AttributeError" ELSE ""]
    /\ UNCHANGED <<manualVars, storageVars, networkVars, spokeVars, bootloaderVars, addonVars>>

\* The ids of the addons of the registry, in the order of the registry.
Ids(registry) == [i \in 1..Len(registry) |-> registry[i].id]

\* The registry logs a message about each of the addons, or calls a
\* method of each of them.
Each(fn, ids) ==
    [i \in 1..Len(ids) |-> [fn |-> fn, device |-> ids[i], uuid |-> "", value |-> FALSE]]

\* (mutation of setup: the placeholders are not filtered out)
setup_all ==
    [addons |-> addons,
     calls |-> Each("setup", Ids(addons))]

\* (mutation of setup: setup is called on every addon the registry had)
setup_before ==
    [addons |-> SelectSeq(addons, LAMBDA entry : entry.addon.name # PLACEHOLDER_NAME),
     calls |-> Each("log.warning",
                    Ids(SelectSeq(addons, LAMBDA entry :
                                     entry.addon.name = PLACEHOLDER_NAME)))
               \o Each("setup", Ids(addons))]

\* AddonRegistry.setup(storage, ksdata, payload): the placeholders are
\* removed with a warning and setup is called on the addons that are left.
setup ==
    LET d == SelectSeq(addons, LAMBDA entry : entry.addon.name # PLACEHOLDER_NAME)
    IN [addons |-> d,
        calls |-> Each("log.warning",
                       Ids(SelectSeq(addons, LAMBDA entry :
                                        entry.addon.name = PLACEHOLDER_NAME)))
                  \o Each("setup", Ids(d))]

AddonRegistrySetup ==
    /\ addons' = setup.addons
    /\ ret' = [NoRet EXCEPT !.op = "setup", !.calls = setup.calls]
    /\ UNCHANGED <<manualVars, storageVars, networkVars, spokeVars, bootloaderVars, addon_id>>

\* AddonRegistry.execute(storage, ksdata, users, payload): execute is
\* called on every addon of the registry.
AddonRegistryExecute ==
    /\ ret' = [NoRet EXCEPT !.op = "execute",
                            !.calls = Each("execute", Ids(addons))]
    /\ UNCHANGED <<manualVars, storageVars, networkVars, spokeVars, bootloaderVars, addonVars>>

\* ------------------------------------------------------------------------
\* The bootloader module and its tasks
\* (pyanaconda/modules/storage/bootloader, as its tests use it).
\* ------------------------------------------------------------------------

MaxImages == 1

\* The number of times the blivet-gui spoke is refreshed.
MaxRefreshes == 2

\* The number of actions blivet-gui schedules in a playground.
MaxActions == 2

BootloaderModes == {"DISABLED", "ENABLED", "SKIPPED"}

KernelVersions == {"4.17.7-200.fc28.x86_64", "4.18.0-1.fc29.x86_64"}

\* No storage model was delivered to the bootloader module.
NoBootloaderStorage ==
    [delivered |-> FALSE, efi |-> FALSE, boot_args |-> <<>>, has_windows |-> FALSE,
     images |-> <<>>, default |-> ""]

\* The storage models delivered to the bootloader module: the class of
\* the boot loader (EFI or not), its boot arguments, whether it finds
\* Windows on the devices, and no image yet.
BootloaderStorages ==
    { [NoBootloaderStorage EXCEPT !.delivered = TRUE, !.efi = efi,
                                  !.boot_args = boot_args, !.has_windows = has_windows] :
        efi \in BOOLEAN, boot_args \in {<<>>, <<"x=1", "y=2">>},
        has_windows \in BOOLEAN }

\* BootloaderModule.on_storage_reset(storage)
BootloaderOnStorageReset ==
    \E storage \in BootloaderStorages :
        /\ bootloader_storage' = storage
        /\ ret' = [NoRet EXCEPT !.op = "on_storage_reset"]
        /\ UNCHANGED <<manualVars, storageVars, networkVars, spokeVars, addonVars, bootloader_mode>>

\* BootloaderModule.set_bootloader_mode(mode)
SetBootloaderMode ==
    \E mode \in BootloaderModes :
        /\ bootloader_mode' = mode
        /\ ret' = [NoRet EXCEPT !.op = "SetBootloaderMode", !.who = mode]
        /\ UNCHANGED <<manualVars, storageVars, networkVars, spokeVars, addonVars, bootloader_storage>>

\* (mutation of bootloader_storage_property: the model is not looked at)
bootloader_storage_unchecked == [storage |-> bootloader_storage, err |-> ""]

\* BootloaderModule.storage: the model delivered to the module, or
\* UnavailableStorageError when there is none.
bootloader_storage_property ==
    [storage |-> bootloader_storage,
     err |-> IF bootloader_storage.delivered THEN "" ELSE "UnavailableStorageError"]

\* An accessor of the bootloader module changes nothing.
BootloaderAccessor(answer) ==
    /\ ret' = answer
    /\ UNCHANGED <<manualVars, storageVars, networkVars, spokeVars, addonVars, bootloaderVars>>

\* BootloaderInterface.IsEFI()
IsEFI ==
    LET model == bootloader_storage_property
    IN BootloaderAccessor(
        IF model.err # "" THEN [NoRet EXCEPT !.op = "IsEFI", !.err = model.err]
        ELSE [NoRet EXCEPT !.op = "IsEFI", !.flag = model.storage.efi])

\* BootloaderInterface.GetArguments()
GetArguments ==
    LET model == bootloader_storage_property
    IN BootloaderAccessor(
        IF model.err # "" THEN [NoRet EXCEPT !.op = "GetArguments", !.err = model.err]
        ELSE [NoRet EXCEPT !.op = "GetArguments", !.out = model.storage.boot_args])

\* BootloaderInterface.DetectWindows()
DetectWindows ==
    LET model == bootloader_storage_property
    IN BootloaderAccessor(
        IF model.err # "" THEN [NoRet EXCEPT !.op = "DetectWindows", !.err = model.err]
        ELSE [NoRet EXCEPT !.op = "DetectWindows", !.flag = model.storage.has_windows])

\* A call on the boot loader of the storage model.
BootloaderCall(fn, version) ==
    [fn |-> fn, device |-> version, uuid |-> "", value |-> FALSE]

\* ConfigureBootloaderTask(storage, mode, [version], sysroot).run(): the
\* image of the kernel is added and made the default one, unless the boot
\* loader is disabled.
ConfigureBootloaderTask_run(storage, mode, version) ==
    IF mode = "DISABLED" THEN [storage |-> storage, calls |-> <<>>]
    ELSE [storage |-> [storage EXCEPT !.images = Append(@, version), !.default = version],
          calls |-> <<BootloaderCall("add_image", version)>>]

\* ConfigureWithTask([version]) of the bootloader module, and run() of
\* the task.
ConfigureBootloaderRun ==
    \E version \in KernelVersions :
        LET ran == ConfigureBootloaderTask_run(bootloader_storage, bootloader_mode, version)
        IN /\ bootloader_storage.delivered
           /\ Len(ran.storage.images) <= MaxImages
           /\ bootloader_storage' = ran.storage
           /\ ret' = [NoRet EXCEPT !.op = "ConfigureBootloaderTask", !.who = version,
                                   !.calls = ran.calls]
           /\ UNCHANGED <<manualVars, storageVars, networkVars, spokeVars, addonVars, bootloader_mode>>

\* (mutation of InstallBootloaderTask_run: only a disabled boot loader is
\* left alone)
InstallBootloaderTask_run_skipped(mode) ==
    IF mode = "DISABLED" THEN <<>>
    ELSE <<BootloaderCall("set_boot_args", ""), BootloaderCall("write", "")>>

\* InstallBootloaderTask(storage, mode).run(): the boot arguments are set
\* and the boot loader is written, unless it is disabled or skipped.
InstallBootloaderTask_run(mode) ==
    IF mode \in {"DISABLED", "SKIPPED"} THEN <<>>
    ELSE <<BootloaderCall("set_boot_args", ""), BootloaderCall("write", "")>>

\* InstallWithTask() of the bootloader module, and run() of the task.
InstallBootloaderRun ==
    /\ bootloader_storage.delivered
    /\ ret' = [NoRet EXCEPT !.op = "InstallBootloaderTask",
                            !.calls = InstallBootloaderTask_run(bootloader_mode)]
    /\ UNCHANGED <<manualVars, storageVars, networkVars, spokeVars, addonVars, bootloaderVars>>

\* ------------------------------------------------------------------------
\* The blivet-gui spoke (pyanaconda/ui/gui/spokes/blivet_gui.py).
\* ------------------------------------------------------------------------

\* The attributes of a storage object the spoke reads and writes:
\* devicetree._devices, devicetree._actions, devicetree._hidden,
\* devicetree.names and roots.
Fields == <<"_devices", "_actions", "_hidden", "names", "roots">>

\* self._error: None, or a text (the list of its lines).
NoError == [none |-> TRUE, lines |-> <<>>]

\* "\n".join(lines): the text with these lines; the empty list gives "".
join_lines(lines) == [none |-> FALSE, lines |-> lines]

\* The storage object with the given identity whose five attributes are
\* the collections first + 1 .. first + 5.
StorageAt(id, first) ==
    [id |-> id, _devices |-> first + 1, _actions |-> first + 2, _hidden |-> first + 3,
     names |-> first + 4, roots |-> first + 5]

\* The collections of a storage object, in the order of Fields.
CollectionsOf(storage) ==
    <<storage._devices, storage._actions, storage._hidden, storage.names, storage.roots>>

\* The numbers of entries of the collections of a storage object.
ContentOf(heap, storage) == [k \in 1..5 |-> heap[CollectionsOf(storage)[k]]]

\* self.storage.copy(): a new storage object with new collections that have
\* the entries of the collections of the storage.
storage_copy(heap, storage) ==
    [storage |-> StorageAt(Len(heap) \div 5 + 1, Len(heap)),
     collections |-> heap \o ContentOf(heap, storage)]

\* BlivetGuiSpoke.clear_errors()
clear_errors(s) == [s EXCEPT !._error = NoError, !.info = ""]

\* BlivetGuiSpoke.refresh(): the playground is a new copy of the storage.
refresh(s, heap) ==
    LET copied == storage_copy(heap, s.storage)
    IN [spoke |-> [s EXCEPT !._back_already_clicked = FALSE,
                            !._storage_playground = copied.storage,
                            !.entered = TRUE],
        collections |-> copied.collections]

\* (mutation of splice: only the devices and the actions are replaced)
splice_devices(storage, playground) ==
    [storage EXCEPT !._devices = playground._devices,
                    !._actions = playground._actions]

\* _do_check(), the five assignments: each attribute of the storage is made
\* the collection of the playground.
splice(storage, playground) ==
    [storage EXCEPT !._devices = playground._devices,
                    !._actions = playground._actions,
                    !._hidden = playground._hidden,
                    !.names = playground.names,
                    !.roots = playground.roots]

\* configure_storage(self.storage, interactive=True) and the handler of
\* BootloaderConfigurationError: the lines of the message are the errors.
configure_storage(s, check) ==
    IF check.bootloader_error THEN [s EXCEPT !.errors = <<"bootloader">>] ELSE s

\* StorageCheckHandler.check_storage(): the errors and the warnings of the
\* report of the storage checker, set or added to the ones there are.
check_storage(s, check) ==
    [s EXCEPT !.errors = (IF check.extends THEN @ ELSE <<>>) \o check.errors,
              !.warnings = check.warnings]

\* _do_check(), after check_storage: the info bar and self._error.
report_check(s) ==
    [s EXCEPT !.info = IF s.errors # <<>> THEN "error"
                       ELSE IF s.warnings # <<>> THEN "warning" ELSE @,
              !._error = join_lines(s.errors \o s.warnings)]

\* (mutation of _do_check: the storage is spliced when the check found
\* nothing)
_do_check_validated(s, check) ==
    LET cleared == [clear_errors(s) EXCEPT !.errors = <<>>, !.warnings = <<>>]
        done == report_check(check_storage(configure_storage(cleared, check), check))
    IN IF done._error.lines = <<>>
       THEN [done EXCEPT !.storage = splice(@, s._storage_playground)]
       ELSE done

\* BlivetGuiSpoke._do_check(): the spoke after it; it returns whether
\* self._error is "".
_do_check(s, check) ==
    LET cleared == [clear_errors(s) EXCEPT !.errors = <<>>, !.warnings = <<>>]
        spliced == [cleared EXCEPT !.storage = splice(@, s._storage_playground)]
    IN report_check(check_storage(configure_storage(spliced, check), check))

\* A call the spoke makes.
SpokeCall(fn) == [fn |-> fn, device |-> "", uuid |-> "", value |-> FALSE]

\* on_back_clicked(), from actions.prune() on: the actions that are left
\* after pruning are shown in the dialog, and the spoke is left unless the
\* dialog is cancelled.
leave(s, heap, calls, kept, rc) ==
    LET actions == s._storage_playground._actions
        pruned == [heap EXCEPT ![actions] = IF kept < @ THEN kept ELSE @]
        find == pruned[actions] > 0
        shown == IF find THEN Append(calls, SpokeCall("ActionSummaryDialog.run")) ELSE calls
    IN IF find /\ rc # 1
       THEN [spoke |-> s, collections |-> pruned, calls |-> shown, left |-> FALSE]
       ELSE [spoke |-> [s EXCEPT !.entered = FALSE], collections |-> pruned,
             calls |-> Append(shown, SpokeCall("NormalSpoke.on_back_clicked")),
             left |-> TRUE]

\* (mutation of on_back_clicked: the result of the check is not looked at)
on_back_clicked_anyway(s, heap, check, kept, rc) ==
    LET cleared == clear_errors(s)
        clicked == [cleared EXCEPT !._back_already_clicked = TRUE]
    IN IF ~cleared._back_already_clicked
       THEN IF ~cleared._error.none
            THEN [spoke |-> clicked, collections |-> heap, calls |-> <<>>, left |-> FALSE]
            ELSE leave(_do_check(clicked, check), heap, <<SpokeCall("_do_check")>>, kept, rc)
       ELSE leave(cleared, heap, <<>>, kept, rc)

\* BlivetGuiSpoke.on_back_clicked(button): the spoke and the collections
\* after it, the calls it made and whether NormalSpoke.on_back_clicked was
\* reached.
on_back_clicked(s, heap, check, kept, rc) ==
    LET cleared == clear_errors(s)
        clicked == [cleared EXCEPT !._back_already_clicked = TRUE]
        checked_now == _do_check(clicked, check)
    IN IF ~cleared._back_already_clicked
       THEN IF ~cleared._error.none
            THEN [spoke |-> clicked, collections |-> heap, calls |-> <<>>, left |-> FALSE]
            ELSE IF checked_now._error.lines # <<>>
                 THEN [spoke |-> checked_now, collections |-> heap,
                       calls |-> <<SpokeCall("_do_check")>>, left |-> FALSE]
                 ELSE leave(checked_now, heap, <<SpokeCall("_do_check")>>, kept, rc)
       ELSE leave(cleared, heap, <<>>, kept, rc)

\* The outcomes of configure_storage and of the storage checker (the
\* errors of the report are added to the ones of configure_storage, or
\* replace them).
Checks ==
    { check \in [bootloader_error : BOOLEAN, extends : BOOLEAN,
                 errors : {<<>>, <<"error">>}, warnings : {<<>>, <<"warning">>}] :
        check.extends => check.bootloader_error }

\* The spoke is displayed, or its reset button is used: refresh().
SpokeRefresh ==
    /\ Len(collections) < 5 * (MaxRefreshes + 1)
    /\ spoke' = refresh(spoke, collections).spoke
    /\ collections' = refresh(spoke, collections).collections
    /\ checked' = FALSE
    /\ ret' = [NoRet EXCEPT !.op = "refresh"]
    /\ UNCHANGED <<manualVars, storageVars, networkVars, addonVars, bootloaderVars>>

\* blivet-gui changes the playground it was initialized with: a device is
\* added to the device tree of the playground, with its name and an action.
SpokeEdit ==
    /\ spoke.entered
    /\ collections[spoke._storage_playground._actions] < MaxActions
    /\ collections[spoke._storage_playground._devices] <= MaxActions
    /\ collections' = [collections EXCEPT ![spoke._storage_playground._devices] = @ + 1,
                                          ![spoke._storage_playground._actions] = @ + 1,
                                          ![spoke._storage_playground.names] = @ + 1]
    /\ ret' = [NoRet EXCEPT !.op = "edit"]
    /\ UNCHANGED <<manualVars, storageVars, networkVars, addonVars, bootloaderVars,
                   spoke, checked>>

\* The Done button of the displayed spoke is clicked.
SpokeBackClicked ==
    /\ spoke.entered
    /\ \E check \in Checks, kept \in 0..MaxActions, rc \in {0, 1} :
        LET clicked == on_back_clicked(spoke, collections, check, kept, rc)
        IN /\ spoke' = clicked.spoke
           /\ collections' = clicked.collections
           /\ checked' = (checked \/ \E i \in 1..Len(clicked.calls) :
                                        clicked.calls[i].fn = "_do_check")
           /\ ret' = [NoRet EXCEPT !.op = "on_back_clicked", !.flag = clicked.left,
                                   !.calls = clicked.calls, !.num = rc]
    /\ UNCHANGED <<manualVars, storageVars, networkVars, addonVars, bootloaderVars>>

\* ------------------------------------------------------------------------
\* Specifications.
\* ------------------------------------------------------------------------

\* The spoke as __init__ leaves it, with the storage it is given: no
\* playground (the storage object 0), no error, the Done button not clicked.
NewSpoke ==
    [storage |-> StorageAt(1, 0), _storage_playground |-> StorageAt(0, 0),
     _error |-> NoError, _back_already_clicked |-> FALSE,
     errors |-> <<>>, warnings |-> <<>>, info |-> "", entered |-> FALSE]

\* The spoke is not used: its storage has a device and no action.
InitSpoke ==
    /\ collections = <<1, 0, 0, 1, 1>>
    /\ spoke = NewSpoke
    /\ checked = FALSE

\* The spoke with its storage, which has a device and may have actions of
\* an earlier visit.
InitSpokeStorage ==
    /\ collections \in { <<1, actions, 0, 1, 1>> : actions \in 0..1 }
    /\ spoke = NewSpoke
    /\ checked = FALSE

\* No addon is registered and no %addon section was opened.
InitAddons ==
    /\ addons = <<>>
    /\ addon_id = None

\* The bootloader module as it is created: no storage model, the boot
\* loader enabled.
InitBootloader ==
    /\ bootloader_storage = NoBootloaderStorage
    /\ bootloader_mode = "ENABLED"

\* No network task has run: the network can be configured, there is no
\* client and no network command, and the lists of the decorators are the
\* empty lists they were created with.
InitNetwork ==
    /\ can_configure_network = TRUE
    /\ nm_client = [present |-> FALSE, devices |-> <<>>]
    /\ network_data = <<>>
    /\ return_value = [task \in NetworkTasks |-> <<>>]

\* ManualPartitioningModule.__init__
InitManual ==
    /\ leaves = <<>>
    /\ selected_disks = <<>>
    /\ requests = <<>>
    /\ enabled = FALSE

\* StorageModule.__init__, and the disk selection module it creates.
InitStorage ==
    /\ _storage = 0
    /\ models = <<>>
    /\ modules = [method \in set(PartitioningMethods) |->
                    [current_storage |-> 0, playground |-> 0, selected_disks |-> <<>>]]
    /\ views = [observer \in set(StorageObservers) |-> 0]
    /\ tasks = <<>>
    /\ created = <<>>
    /\ ignored_disks = <<>>
    /\ exclusive_disks = <<>>
    /\ protected_devices = <<>>
    /\ disk_images = <<>>
    /\ disk_selection = <<>>

\* gather_requests() over every device tree, selection of disks and list of
\* declared requests, set on the manual partitioning module itself.
InitGather ==
    /\ leaves \in DeviceTrees
    /\ selected_disks \in SelectedDiskLists
    /\ requests \in RequestLists
    /\ enabled = FALSE
    /\ InitStorage
    /\ InitNetwork
    /\ InitAddons
    /\ InitBootloader
    /\ InitSpoke
    /\ ret = NoRet

NextGather == GatherRequests

SpecGather == InitGather /\ [][NextGather]_vars

\* gather_requests() called again and again for the same device tree and
\* declared requests, with no disk or the first disk selected.
InitGatherAgain ==
    /\ InitGather
    /\ set(selected_disks) \subseteq {1}

SpecGatherAgain == InitGatherAgain /\ [][NextGather]_vars

\* The kickstart import and export of the manual partitioning module.
InitKickstart ==
    /\ InitManual
    /\ InitStorage
    /\ InitNetwork
    /\ InitAddons
    /\ InitBootloader
    /\ InitSpoke
    /\ ret = NoRet

NextKickstart ==
    \/ \E new_requests \in RequestLists : SetRequests(new_requests)
    \/ \E new_enabled \in BOOLEAN : SetEnabled(new_enabled)
    \/ \E data \in KickstartData : ProcessKickstart(data)
    \/ SetupKickstart(FreshData)

SpecKickstart == InitKickstart /\ [][NextKickstart]_vars

\* The storage module, its reset tasks, the partitioning modules and the
\* disk selection module.
Init ==
    /\ InitManual
    /\ InitStorage
    /\ InitNetwork
    /\ InitAddons
    /\ InitBootloader
    /\ InitSpoke
    /\ ret = NoRet

Next ==
    \/ GetStorage
    \/ ResetWithTask
    \/ \E t \in 1..Len(tasks) : StartResetTask(t)
    \/ \E t \in 1..Len(tasks) : FailResetTask(t)
    \/ \E t \in 1..Len(tasks) : SucceedResetTask(t)
    \/ \E method \in UsedMethods, plan \in {"valid", "invalid"} :
            ConfigurePartitioning(method, plan)
    \/ \E method \in UsedMethods : ApplyPartitioning(method)
    \/ \E drives \in IgnoredDisksValues : SetIgnoredDisks(drives)
    \/ \E devices \in ProtectedDevicesValues : SetProtectedDevices(devices)

Spec == Init /\ [][Next]_vars

\* The reset of the storage model under every change of the constraints of
\* the disk selection module.
NextReset ==
    \/ GetStorage
    \/ ResetWithTask
    \/ \E t \in 1..Len(tasks) : StartResetTask(t)
    \/ \E t \in 1..Len(tasks) : FailResetTask(t)
    \/ \E t \in 1..Len(tasks) : SucceedResetTask(t)
    \/ \E drives \in IgnoredDisksValues : SetIgnoredDisks(drives)
    \/ \E drives \in ExclusiveDisksValues : SetExclusiveDisks(drives)
    \/ \E devices \in ProtectedDevicesValues : SetProtectedDevices(devices)
    \/ \E images \in DiskImagesValues : SetDiskImages(images)

SpecReset == Init /\ [][NextReset]_vars

\* The storage module with the partitioning modules created after __init__
\* and the changes of the selected disks.
NextCreate ==
    \/ GetStorage
    \/ ResetWithTask
    \/ \E t \in 1..Len(tasks) : StartResetTask(t)
    \/ \E t \in 1..Len(tasks) : FailResetTask(t)
    \/ \E t \in 1..Len(tasks) : SucceedResetTask(t)
    \/ \E method \in {"MANUAL"} \cup set(created), plan \in {"valid", "invalid"} :
            ConfigurePartitioning(method, plan)
    \/ \E method \in {"MANUAL"} \cup set(created) : ApplyPartitioning(method)
    \/ \E method \in set(PartitioningMethods) : CreatePartitioning(method)
    \/ \E drives \in SelectedDisksValues : SetSelectedDisks(drives)
    \/ InstallWithTasks
    \/ TeardownWithTasks

SpecCreate == Init /\ [][NextCreate]_vars

\* The reset tasks and apply_partitioning of the manual partitioning
\* module, with room for one more task and for the models of a task and of
\* an applied partitioning.
NextCompletion ==
    \/ ResetWithTaskIn(MaxModels + 2, MaxTasks + 1)
    \/ \E t \in 1..Len(tasks) : StartResetTask(t)
    \/ \E t \in 1..Len(tasks) : FailResetTask(t)
    \/ \E t \in 1..Len(tasks) : SucceedResetTask(t)
    \/ \E plan \in {"valid", "invalid"} :
            ConfigurePartitioningIn("MANUAL", plan, MaxModels + 2)
    \/ ApplyPartitioningIn("MANUAL", MaxModels + 2)

SpecCompletion == Init /\ [][NextCompletion]_vars

\* The clients the tasks are created with: none, or one with its devices.
NetworkClients ==
    { [present |-> FALSE, devices |-> <<>>] }
    \cup { [present |-> TRUE, devices |-> devices] :
                devices \in NetDeviceLists(MaxNetDevices) }

\* The four network tasks, for every configuration, client and list of
\* network commands.
InitNetworkTasks ==
    /\ InitManual
    /\ InitStorage
    /\ can_configure_network \in BOOLEAN
    /\ nm_client \in NetworkClients
    /\ network_data \in SeqsUpTo(NetworkDataPool, MaxNetworkData)
    /\ return_value = [task \in NetworkTasks |-> <<>>]
    /\ InitAddons
    /\ InitBootloader
    /\ InitSpoke
    /\ ret = NoRet

NextNetwork ==
    \/ ApplyKickstartRun
    \/ ConsolidateInitramfsConnectionsRun
    \/ SetRealOnbootValuesFromKickstartRun
    \/ DumpMissingIfcfgFilesRun

\* The guards of run() are decided before any device is looked at: the
\* guarded runs take the clients with fewer than MaxNetDevices devices.
InitGuards ==
    /\ InitNetworkTasks
    /\ Len(nm_client.devices) < MaxNetDevices

SpecNetwork == InitGuards /\ [][NextNetwork]_vars

\* The four network tasks and a caller that changes the lists they return.
NextCallers ==
    \/ NextNetwork
    \/ CallerAppends

\* What a caller does with a returned list does not depend on the network
\* commands of the kickstart file: the callers work with none.
InitCallers ==
    /\ InitGuards
    /\ network_data = <<>>

SpecCallers == InitCallers /\ [][NextCallers]_vars

\* The tasks that work on the devices of the client, with a client and a
\* network that can be configured.
InitDevices ==
    /\ InitNetworkTasks
    /\ can_configure_network
    /\ nm_client.present
    /\ network_data = <<>>

NextDevices ==
    \/ ConsolidateInitramfsConnectionsRun
    \/ DumpMissingIfcfgFilesRun

SpecDevices == InitDevices /\ [][NextDevices]_vars

\* The tasks that work on the network commands, with a client and a
\* network that can be configured.
InitDirectives ==
    /\ InitNetworkTasks
    /\ can_configure_network
    /\ nm_client.present
    /\ network_data # <<>>

NextDirectives ==
    \/ ApplyKickstartRun
    \/ SetRealOnbootValuesFromKickstartRun

SpecDirectives == InitDirectives /\ [][NextDirectives]_vars

\* The tasks that work on the network commands, for lists of network
\* commands one longer than MaxNetworkData and clients with fewer than
\* MaxNetDevices devices: a command is followed by another one.
InitCommandLists ==
    /\ InitManual
    /\ InitStorage
    /\ can_configure_network = TRUE
    /\ nm_client \in { client \in NetworkClients :
                          client.present /\ Len(client.devices) < MaxNetDevices }
    /\ network_data \in SeqsUpTo(NetworkDataPool, MaxNetworkData + 1) \ {<<>>}
    /\ return_value = [task \in NetworkTasks |-> <<>>]
    /\ InitAddons
    /\ InitBootloader
    /\ InitSpoke
    /\ ret = NoRet

SpecCommandLists == InitCommandLists /\ [][NextDirectives]_vars

\* The %addon sections of a kickstart file and the registry of the addons,
\* with or without a registered addon.
InitAddonSections ==
    /\ InitManual
    /\ InitStorage
    /\ InitNetwork
    /\ InitBootloader
    /\ InitSpoke
    /\ addons \in {<<>>, <<[id |-> "com_example_foo",
                             addon |-> AddonData("com_example_foo")]>>}
    /\ addon_id = None
    /\ ret = NoRet

NextAddons ==
    \/ AddonSectionHandleHeader
    \/ AddonSectionHandleLine
    \/ AddonSectionFinalize
    \/ AddonRegistrySetup
    \/ AddonRegistryExecute

SpecAddons == InitAddonSections /\ [][NextAddons]_vars

\* The blivet-gui spoke, displayed, edited and left.
InitBlivetGui ==
    /\ InitManual
    /\ InitStorage
    /\ InitNetwork
    /\ InitAddons
    /\ InitBootloader
    /\ InitSpokeStorage
    /\ ret = NoRet

NextBlivetGui ==
    \/ SpokeRefresh
    \/ SpokeEdit
    \/ SpokeBackClicked

SpecBlivetGui == InitBlivetGui /\ [][NextBlivetGui]_vars

\* The bootloader module from its creation, the storage models delivered
\* to it and its tasks.
InitBootloaderModule ==
    /\ InitManual
    /\ InitStorage
    /\ InitNetwork
    /\ InitAddons
    /\ InitBootloader
    /\ InitSpoke
    /\ ret = NoRet

NextBootloader ==
    \/ BootloaderOnStorageReset
    \/ SetBootloaderMode
    \/ IsEFI
    \/ GetArguments
    \/ DetectWindows
    \/ ConfigureBootloaderRun
    \/ InstallBootloaderRun

SpecBootloader == InitBootloaderModule /\ [][NextBootloader]_vars

\* ------------------------------------------------------------------------
\* Properties of gather_requests() (SpecGather).
\* ------------------------------------------------------------------------

Gathered == ret.op = "gather_requests"

\* The positions in the leaves of the candidate devices: not protected, of
\* non-zero size and, when some disks are selected, on selected disks only.
CandidateDevices ==
    { i \in 1..Len(leaves) :
        /\ leaves[i].protected = FALSE
        /\ leaves[i].size > 0
        /\ \/ Len(selected_disks) = 0
           \/ \A disk \in leaves[i].disks : \E j \in 1..Len(selected_disks) : selected_disks[j] = disk }

\* C1: no two requests of the list gather_requests() returns resolve to the
\* same device, and no declared request is returned twice.
GatherNoDuplicates ==
    Gathered =>
        \A i, j \in 1..Len(ret.out) :
            i # j =>
                /\ resolve_device(ret.out[i].request.device_spec)
                     # resolve_device(ret.out[j].request.device_spec)
                /\ ret.out[i].declared # 0 => ret.out[i].declared # ret.out[j].declared

\* Two declared requests name the same device and one of them was returned.
GatherNoDuplicatesWitness ==
    /\ Gathered
    /\ Len(requests) = 2
    /\ requests[1].device_spec # requests[2].device_spec
    /\ resolve_device(requests[1].device_spec) = resolve_device(requests[2].device_spec)
    /\ \E i \in 1..Len(ret.out) : ret.out[i].declared # 0
    /\ Len(ret.out) >= 2

\* C2: the request returned for a device is a declared request that resolves
\* to the device when there is one, and otherwise a new request for the
\* path of the device, not to be reformatted, with the format type of the
\* device (empty when it has none) and the mount point of the device when
\* its format is mountable and has one (empty otherwise).
GatherDeclaredOrSynthesized ==
    Gathered =>
        \A i \in 1..Len(ret.out) :
            LET entry == ret.out[i]
                device == leaves[entry.device]
                declared == { k \in 1..Len(requests) :
                                resolve_device(requests[k].device_spec) = entry.device }
            IN IF declared # {}
               THEN /\ entry.declared \in declared
                    /\ entry.request = requests[entry.declared]
               ELSE /\ entry.declared = 0
                    /\ entry.request.device_spec = device.path
                    /\ entry.request.reformat = FALSE
                    /\ entry.request.format_type =
                         (IF device.format.type = None THEN "" ELSE device.format.type)
                    /\ entry.request.mount_point =
                         (IF device.format.mountable /\ device.format.mountpoint # None
                          THEN device.format.mountpoint ELSE "")
                    /\ entry.request.format_options = ""
                    /\ entry.request.mount_options = ""

\* '/' on sda1 and '/home' on sda2 are declared, sda1, sda2 and sda3 are
\* usable, sda3 has no format: three requests, the third one is new.
GatherDeclaredOrSynthesizedWitness ==
    /\ Gathered
    /\ Len(requests) = 2
    /\ requests[1].mount_point = "/" /\ requests[1].device_spec = "sda1"
    /\ requests[2].mount_point = "/home" /\ requests[2].device_spec = "sda2"
    /\ leaves[3].format.type = None
    /\ Len(ret.out) = 3
    /\ ret.out[1].declared = 1 /\ ret.out[2].declared = 2 /\ ret.out[3].declared = 0
    /\ ret.out[3].request.reformat = FALSE
    /\ ret.out[3].request.mount_point = ""

\* C3: gather_requests() returns one request per candidate device, the i-th
\* request for the i-th candidate device in the order of the leaves,
\* whatever the number of declared requests.
GatherOnePerCandidate ==
    Gathered =>
        /\ Len(ret.out) = Cardinality(CandidateDevices)
        /\ \A i \in 1..Len(ret.out) :
              /\ ret.out[i].device \in CandidateDevices
              /\ Cardinality({ d \in CandidateDevices : d < ret.out[i].device }) = i - 1
              /\ resolve_device(ret.out[i].request.device_spec) = ret.out[i].device

\* Two requests are declared, one of them for no candidate device, and a
\* device without a declared request is a candidate.
GatherOnePerCandidateWitness ==
    /\ Gathered
    /\ Len(requests) = 2
    /\ \E k \in 1..2 : resolve_device(requests[k].device_spec) \notin CandidateDevices
    /\ \E i \in 1..Len(ret.out) : ret.out[i].declared # 0
    /\ \E i \in 1..Len(ret.out) : ret.out[i].declared = 0
    /\ Len(ret.out) > Len(requests)

\* C4: the devices gather_requests() returns requests for are exactly the
\* candidate devices.
GatherCandidates ==
    Gathered => { ret.out[i].device : i \in 1..Len(ret.out) } = CandidateDevices

\* A disk is selected; one device is left out because it is protected, one
\* because one of its disks is not selected, and one is a candidate.
GatherCandidatesWitness ==
    /\ Gathered
    /\ Len(selected_disks) = 1
    /\ \E i \in 1..Len(leaves) : leaves[i].protected
    /\ \E i \in 1..Len(leaves) :
          /\ ~leaves[i].protected /\ leaves[i].size > 0
          /\ leaves[i].disks \cap set(selected_disks) # {}
          /\ ~(leaves[i].disks \subseteq set(selected_disks))
    /\ Len(ret.out) = 1

\* ------------------------------------------------------------------------
\* Properties of the kickstart import and export (SpecKickstart).
\* ------------------------------------------------------------------------

\* The two lists have the same contents up to order.
SameContents(a, b) ==
    /\ Len(a) = Len(b)
    /\ \A r \in set(a) \cup set(b) :
          Cardinality({ i \in 1..Len(a) : a[i] = r }) = Cardinality({ i \in 1..Len(b) : b[i] = r })

\* process_kickstart is called with the record setup_kickstart generated
\* from the current state.
RoundTripStep == ret.op = "setup_kickstart" /\ ret'.op = "process_kickstart"

\* C5 as claimed: setup_kickstart on a fresh record and then
\* process_kickstart on the generated record give back the enabled flag and
\* the contents of the requests, whatever the state of the module.
RoundTripAnyState ==
    [][RoundTripStep /\ ret'.who = "generated" =>
            /\ enabled' = enabled
            /\ SameContents(requests', requests)]_vars

\* C5: setup_kickstart does not mark the mount section as seen, so
\* process_kickstart on the generated record leaves the module disabled and
\* without requests (the state it has only when it was disabled and had no
\* requests); for an enabled module, process_kickstart on the generated
\* record with the mount section marked as seen gives back enabled = true
\* and the same requests, in the same order.
RoundTripSeen ==
    [][RoundTripStep =>
            /\ ret'.who = "generated" => enabled' = FALSE /\ requests' = <<>>
            /\ ret'.who = "generated, seen" /\ enabled =>
                    enabled' = TRUE /\ requests' = requests]_vars

\* An enabled module with two different requests got them back from the
\* generated record.
RoundTripSeenWitness ==
    /\ ret.op = "process_kickstart"
    /\ ret.who = "generated, seen"
    /\ enabled
    /\ Len(requests) = 2
    /\ requests[1] # requests[2]
    /\ requests[1].format_options # requests[1].mount_options

\* ------------------------------------------------------------------------
\* Properties of the storage module (Spec, SpecReset).
\* ------------------------------------------------------------------------

\* The modules that listen to storage_changed.
Subscribers == DOMAIN modules \cup DOMAIN views

\* The log is one notification of the model to every subscriber.
Delivered(log, storage) ==
    /\ Len(log) = Cardinality(Subscribers)
    /\ \A subscriber \in Subscribers : \E i \in 1..Len(log) : log[i].handler = subscriber
    /\ \A i \in 1..Len(log) : log[i].storage = storage

\* Nothing of the canonical model or of what the subscribers hold of it
\* changes in the step.
CanonicalUntouched ==
    /\ _storage' = _storage
    /\ _storage # 0 => models'[_storage] = models[_storage]
    /\ views' = views
    /\ \A method \in DOMAIN modules :
          modules'[method].current_storage = modules[method].current_storage
    /\ ret'.out = <<>>

\* Every subscriber holds the canonical model after the step.
AllNotified ==
    /\ Delivered(ret'.out, _storage')
    /\ \A observer \in DOMAIN views : views'[observer] = _storage'
    /\ \A method \in DOMAIN modules : modules'[method].current_storage = _storage'

\* The constraints a model carries.
Constraints(content) ==
    [ignored_disks |-> content.ignored_disks,
     exclusive_disks |-> content.exclusive_disks,
     protected_devices |-> content.protected_devices,
     disk_images |-> content.disk_images]

\* C6: a step of the run of a reset task either replaces the canonical model
\* by the model of the task and notifies every subscriber of it (the run
\* succeeded), or leaves the canonical model and every subscriber as they
\* were, without a notification (the run is under way, or failed).
ResetAtomic ==
    [][ret'.op \in {"StorageResetTask.start", "StorageResetTask.run"} =>
            IF ret'.op = "StorageResetTask.run" /\ ret'.err = ""
            THEN /\ _storage' = tasks[ret'.num].storage
                 /\ _storage' # _storage
                 /\ AllNotified
            ELSE CanonicalUntouched]_vars

\* A reset task failed after it had started to change its model, and there
\* is a canonical model.
ResetAtomicWitness ==
    /\ ret.op = "StorageResetTask.run"
    /\ ret.err # ""
    /\ tasks[ret.num].state = "failed"
    /\ _storage # 0
    /\ views["bootloader"] = _storage

\* C7 as claimed: reset_with_task() never changes the canonical model and
\* never emits storage_changed, also before the canonical model exists.
ResetWithTaskNeverTouches ==
    [][ret'.op = "reset_with_task" => CanonicalUntouched]_vars

\* C7: reset_with_task(), called when the canonical model exists, does not
\* change it and emits nothing; called before it exists, it creates the
\* canonical model (another object than the one of the task) and notifies
\* every subscriber of it. The model of a task becomes the canonical one
\* only in the step in which that task succeeds, and a task that fails
\* leaves the canonical model and the subscribers as they were.
ResetWithTaskLazy ==
    [][/\ ret'.op = "reset_with_task" /\ _storage # 0 => CanonicalUntouched
       /\ ret'.op = "reset_with_task" /\ _storage = 0 =>
            /\ _storage' = Len(models) + 1
            /\ tasks'[ret'.num].storage # _storage'
            /\ models'[_storage'] = create_storage
            /\ AllNotified
       /\ \A t \in 1..Len(tasks) :
            tasks[t].state \in {"idle", "running"} /\ _storage' = tasks[t].storage =>
                ret'.op = "StorageResetTask.run" /\ ret'.num = t /\ ret'.err = ""
       /\ ret'.op = "StorageResetTask.run" /\ ret'.err # "" => CanonicalUntouched]_vars

\* reset_with_task() was called with constraints the canonical model does
\* not carry, and emitted nothing.
ResetWithTaskLazyWitness ==
    /\ ret.op = "reset_with_task"
    /\ ret.out = <<>>
    /\ _storage # 0
    /\ tasks[ret.num].state = "idle"
    /\ models[tasks[ret.num].storage].ignored_disks # models[_storage].ignored_disks

\* C8: apply_partitioning(module) raises when the model of the module does
\* not pass the validation, and then the canonical model is unchanged and
\* nothing is emitted; otherwise the canonical model becomes a new object
\* with the content of the model of the module, and every subscriber is
\* notified of it once.
ApplyPartitioningContract ==
    [][ret'.op = "apply_partitioning" =>
            LET current == modules[ret'.who].current_storage
                plan == IF ret'.num <= Len(models) THEN models[ret'.num] ELSE models[current]
            IN IF current = 0
               THEN ret'.err = "UnavailableStorageError" /\ CanonicalUntouched
               ELSE IF plan.tree # "valid"
                    THEN ret'.err = "InvalidStorageError" /\ CanonicalUntouched
                    ELSE /\ ret'.err = ""
                         /\ _storage' = Len(models') /\ _storage' > Len(models)
                         /\ _storage' # ret'.num
                         /\ models'[_storage'] = plan
                         /\ AllNotified]_vars

\* A valid plan was applied: the canonical model is a third object, after
\* the model the plan was made from and the playground of the module.
ApplyPartitioningContractWitness ==
    /\ ret.op = "apply_partitioning"
    /\ ret.err = ""
    /\ _storage = 3
    /\ ret.num = 2
    /\ models[_storage].tree = "valid"
    /\ modules[ret.who].playground = 0

\* C9 as claimed: the model a successful reset makes canonical carries
\* the constraints the disk selection module has at the time of the switch.
ResetCarriesCurrentConstraints ==
    ret.op = "StorageResetTask.run" /\ ret.err = "" =>
        Constraints(models[_storage]) = DiskSelection

\* C9: the model a successful reset makes canonical carries the
\* constraints the disk selection module had when reset_with_task() was
\* called.
ResetCarriesCalledConstraints ==
    ret.op = "StorageResetTask.run" /\ ret.err = "" =>
        /\ _storage = tasks[ret.num].storage
        /\ Constraints(models[_storage]) = tasks[ret.num].called

\* A reset succeeded; the four constraints were set when it was called,
\* and the disk selection has changed since.
ResetCarriesCalledConstraintsWitness ==
    /\ ret.op = "StorageResetTask.run"
    /\ ret.err = ""
    /\ tasks[ret.num].called.ignored_disks # <<>>
    /\ tasks[ret.num].called.exclusive_disks # <<>>
    /\ tasks[ret.num].called.protected_devices # <<>>
    /\ tasks[ret.num].called.disk_images # <<>>
    /\ DiskSelection # tasks[ret.num].called

\* C10 as claimed: after a failed apply_partitioning the canonical model is
\* untouched and the module no longer holds the plan.
FailedPlanDiscarded ==
    [][ret'.op = "apply_partitioning" /\ ret'.err = "InvalidStorageError" =>
            /\ CanonicalUntouched
            /\ modules'[ret'.who].playground = 0]_vars

\* C10: after a failed apply_partitioning the canonical model is untouched
\* and the module still holds the plan, unchanged; a module loses its
\* playground only in a step that notifies it of a canonical model.
FailedPlanKept ==
    [][/\ ret'.op = "apply_partitioning" /\ ret'.err = "InvalidStorageError" =>
            /\ CanonicalUntouched
            /\ modules'[ret'.who].playground = ret'.num
            /\ ret'.num # 0
            /\ models'[ret'.num].tree # "valid"
            /\ ret'.num <= Len(models) => models'[ret'.num] = models[ret'.num]
       /\ \A method \in DOMAIN modules :
            modules[method].playground # 0
                /\ modules'[method].playground # modules[method].playground =>
                    /\ modules'[method].playground = 0
                    /\ \E i \in 1..Len(ret'.out) :
                          /\ ret'.out[i].handler = method
                          /\ ret'.out[i].storage = _storage']_vars

\* The validation of an invalid plan failed, and the module holds the plan.
FailedPlanKeptWitness ==
    /\ ret.op = "apply_partitioning"
    /\ ret.err = "InvalidStorageError"
    /\ modules[ret.who].playground = ret.num
    /\ models[ret.num].tree = "invalid"
    /\ _storage # 0

\* ------------------------------------------------------------------------
\* Properties of the notifications of the storage module (Spec, SpecCreate).
\* ------------------------------------------------------------------------

\* The order in which __init__ connects the callbacks of storage_changed.
InitOrder ==
    <<"AUTOMATIC", "MANUAL", "CUSTOM", "INTERACTIVE", "BLIVET",
      "device_tree", "disk_init", "disk_selection", "snapshot", "bootloader">>

\* C11: a step that sets the canonical model calls, within the step, the
\* ten callbacks __init__ connected, in the order of their connection (the
\* five partitioning modules, then device tree, disk initialization, disk
\* selection, snapshot and bootloader), each with the new model, and each
\* one finds the canonical model already equal to the model it is called
\* with; when the step is over every one of them holds the new model.
SetStorageOrdered ==
    [][_storage' # _storage \/ ret'.out # <<>> =>
            /\ Len(ret'.out) = 10
            /\ \A i \in 1..10 :
                  /\ ret'.out[i].handler = InitOrder[i]
                  /\ ret'.out[i].storage = _storage'
                  /\ ret'.out[i].canonical = ret'.out[i].storage
            /\ \A method \in DOMAIN modules : modules'[method].current_storage = _storage'
            /\ \A observer \in DOMAIN views : views'[observer] = _storage']_vars

\* A plan was applied over an earlier canonical model: the first callback
\* called was the one of the automatic partitioning, the last one the one
\* of the bootloader.
SetStorageOrderedWitness ==
    /\ ret.op = "apply_partitioning"
    /\ ret.err = ""
    /\ Len(ret.out) = 10
    /\ ret.out[1].handler = "AUTOMATIC"
    /\ ret.out[10].handler = "bootloader"
    /\ ret.out[10].canonical = _storage
    /\ _storage > 1

\* C12: every partitioning module, created by __init__ or afterwards, holds
\* the canonical model (None as long as there is none) as the model last
\* delivered to it and the selected disks of the disk selection module as
\* the selection last delivered to it.
ModulesFollow ==
    /\ DOMAIN modules = set(PartitioningMethods) \cup set(created)
    /\ \A module \in DOMAIN modules :
          /\ modules[module].current_storage = _storage
          /\ modules[module].selected_disks = disk_selection

\* A module created after __init__ has seen a change of the selected disks
\* and a canonical model that replaced an earlier one.
ModulesFollowWitness ==
    /\ created # <<>>
    /\ ret.op = "set_selected_disks"
    /\ disk_selection # <<>>
    /\ modules[created[1]].selected_disks = disk_selection
    /\ modules[created[1]].current_storage > 1

\* The modules __init__ connects to storage_changed after the partitioning
\* modules.
CachingModules == {"device_tree", "disk_init", "disk_selection", "snapshot", "bootloader"}

\* C13: the storage property creates a model only when there is none, and
\* then notifies of it; otherwise it returns the canonical model, changes
\* nothing and emits nothing. Once there is a canonical model there is
\* always one. A step that changes which model is the canonical one
\* notifies each of the five caching modules exactly once, of the new
\* model, and a step that does not emits nothing.
CanonicalLazyOnce ==
    [][/\ ret'.op = "storage" =>
            /\ ret'.num = _storage'
            /\ IF _storage # 0
               THEN CanonicalUntouched /\ models' = models
               ELSE /\ _storage' = Len(models) + 1
                    /\ models'[_storage'] = create_storage
       /\ _storage # 0 => _storage' # 0
       /\ _storage' # _storage =>
            /\ ret'.op \in {"storage", "reset_with_task", "StorageResetTask.run",
                             "apply_partitioning"}
            /\ \A observer \in CachingModules :
                  /\ Cardinality({ i \in 1..Len(ret'.out) :
                                      ret'.out[i].handler = observer }) = 1
                  /\ \A i \in 1..Len(ret'.out) :
                        ret'.out[i].handler = observer => ret'.out[i].storage = _storage'
                  /\ views'[observer] = _storage'
       /\ _storage' = _storage => ret'.out = <<>>]_vars

\* The storage property was read after the canonical model had been
\* replaced: it returned the canonical model and emitted nothing.
CanonicalLazyOnceWitness ==
    /\ ret.op = "storage"
    /\ ret.out = <<>>
    /\ ret.num = _storage
    /\ _storage > 1
    /\ models[_storage].tree # "empty"

\* C14 as claimed: process_kickstart without a mount command leaves the
\* enabled flag and the requests as they were and emits nothing.
ProcessKickstartNoOp ==
    [][ret'.op = "process_kickstart" /\ ~ret'.data.mount.seen =>
            /\ enabled' = enabled
            /\ requests' = requests
            /\ ret'.emitted = {}]_vars

\* C14: process_kickstart without a mount command disables the module and
\* empties its requests, whatever they were, and emits requests_changed
\* and enabled_changed.
ProcessKickstartResets ==
    [][ret'.op = "process_kickstart" /\ ~ret'.data.mount.seen =>
            /\ enabled' = FALSE
            /\ requests' = <<>>
            /\ ret'.emitted = {"requests_changed", "enabled_changed"}]_vars

\* process_kickstart was called without a mount command, with the record
\* generated from an enabled module with two requests.
ProcessKickstartResetsWitness ==
    /\ ret.op = "process_kickstart"
    /\ ~ret.data.mount.seen
    /\ ret.who = "generated"
    /\ Len(ret.data.mount.mount_points) = 2
    /\ ~enabled
    /\ requests = <<>>

\* C15: install_with_tasks() returns the tasks that activate the
\* filesystems, mount them and write the configuration, and
\* teardown_with_tasks() the tasks that unmount the filesystems and tear
\* down the disk images, in that order, every task with the canonical
\* model; the content of the canonical model is what it was before the
\* call (the one of a new model when there was none).
WithTasksFixedOrder ==
    [][ret'.op \in {"install_with_tasks", "teardown_with_tasks"} =>
            /\ ret'.op = "install_with_tasks" =>
                    /\ Len(ret'.tasks) = 3
                    /\ ret'.tasks[1].name = "ActivateFilesystemsTask"
                    /\ ret'.tasks[2].name = "MountFilesystemsTask"
                    /\ ret'.tasks[3].name = "WriteConfigurationTask"
            /\ ret'.op = "teardown_with_tasks" =>
                    /\ Len(ret'.tasks) = 2
                    /\ ret'.tasks[1].name = "UnmountFilesystemsTask"
                    /\ ret'.tasks[2].name = "TeardownDiskImagesTask"
            /\ \A i \in 1..Len(ret'.tasks) : ret'.tasks[i].storage = _storage'
            /\ _storage' # 0
            /\ IF _storage # 0
               THEN CanonicalUntouched /\ models' = models
               ELSE models'[_storage'] = create_storage]_vars

\* The installation tasks were returned for a canonical model that is a
\* valid plan applied earlier.
WithTasksFixedOrderWitness ==
    /\ ret.op = "install_with_tasks"
    /\ Len(ret.tasks) = 3
    /\ ret.tasks[3].storage = _storage
    /\ models[_storage].tree = "valid"

\* ------------------------------------------------------------------------
\* Properties of the network initialization tasks (SpecNetwork, SpecDevices,
\* SpecDirectives).
\* ------------------------------------------------------------------------

\* The last operation was run() of the task.
Ran(task) == ret.op = "run" /\ ret.who = task

\* C16: when the network can not be configured, run() of each of the four
\* tasks returns an empty list, raises nothing and calls nothing of the
\* network backend, whatever the client, its devices and the network
\* commands.
NetworkGuard ==
    ret.op = "run" /\ ~can_configure_network =>
        /\ ret.who \in {"ApplyKickstartTask", "ConsolidateInitramfsConnectionsTask",
                        "SetRealOnbootValuesFromKickstartTask", "DumpMissingIfcfgFilesTask"}
        /\ ret.out = <<>>
        /\ ret.err = ""
        /\ ret.calls = <<>>

\* The dump of the missing ifcfg files was run with the configuration of
\* the network disabled, for a client with a wired device without ifcfg
\* file and connection.
NetworkGuardWitness ==
    /\ Ran("DumpMissingIfcfgFilesTask")
    /\ ~can_configure_network
    /\ nm_client.present
    /\ nm_client.devices # <<>>
    /\ nm_client.devices[1].wired /\ nm_client.devices[1].cons = <<>>
    /\ ~nm_client.devices[1].ifcfg.exists
    /\ ret.out = <<>>

\* C17: when the network can be configured and there is no client, run() of
\* each of the four tasks returns an empty list, raises nothing and calls
\* nothing; so do ApplyKickstartTask and
\* SetRealOnbootValuesFromKickstartTask without network commands.
NoClientNoWork ==
    ret.op = "run" /\ can_configure_network =>
        /\ ~nm_client.present =>
                ret.out = <<>> /\ ret.err = "" /\ ret.calls = <<>>
        /\ network_data = <<>>
            /\ ret.who \in {"ApplyKickstartTask", "SetRealOnbootValuesFromKickstartTask"} =>
                ret.out = <<>> /\ ret.err = "" /\ ret.calls = <<>>

\* The kickstart was applied without a client, with a network command for
\* a device that is found.
NoClientNoWorkWitness ==
    /\ Ran("ApplyKickstartTask")
    /\ can_configure_network
    /\ ~nm_client.present
    /\ Len(network_data) = 1
    /\ network_data[1].essid = ""
    /\ network_data[1].device_name = "ens3"
    /\ ret.out = <<>>

\* The device has fewer than two available connections, or one of a slave.
FewOrSlave(device) ==
    \/ Len(device.cons) < 2
    \/ \E k \in 1..Len(device.cons) : device.cons[k].master # ""

\* The run tried to make a connection the active one of the interface.
Activation(iface) ==
    \E i \in 1..Len(ret.calls) :
        /\ ret.calls[i].fn \in {"ensure_active_connection_for_device",
                                "activate_connection_async"}
        /\ ret.calls[i].device = iface

\* C18: the consolidation of the initramfs connections returns no device
\* that has fewer than two available connections or a slave connection,
\* and activates nothing for it.
ConsolidateSkipsSlaves ==
    Ran("ConsolidateInitramfsConnectionsTask") =>
        \A i \in 1..Len(nm_client.devices) :
            FewOrSlave(nm_client.devices[i]) =>
                /\ \A j \in 1..Len(ret.out) : ret.out[j] # nm_client.devices[i].iface
                /\ ~Activation(nm_client.devices[i].iface)

\* The first device has two connections, one of them the slave of a bond,
\* and is not returned; the second device was consolidated.
ConsolidateSkipsSlavesWitness ==
    /\ Ran("ConsolidateInitramfsConnectionsTask")
    /\ Len(nm_client.devices) = 2
    /\ Len(nm_client.devices[1].cons) = 2
    /\ nm_client.devices[1].cons[1].master = ""
    /\ nm_client.devices[1].cons[2].master = "bond0"
    /\ ret.out = <<nm_client.devices[2].iface>>

\* The device has two or more available connections, none of a slave, and
\* an ifcfg file that does not come from kickstart.
HasInitramfsIfcfg(device) ==
    /\ Len(device.cons) >= 2
    /\ \A k \in 1..Len(device.cons) : device.cons[k].master = ""
    /\ device.ifcfg.exists
    /\ ~device.ifcfg.is_from_kickstart

\* C19 as claimed: for a device with two or more available connections,
\* none of a slave, and an ifcfg file that does not come from kickstart,
\* the consolidation makes the connection of the ifcfg file the only active
\* one, ends without an error and returns the device.
ConsolidateKeepsIfcfg ==
    Ran("ConsolidateInitramfsConnectionsTask") =>
        \A i \in 1..Len(nm_client.devices) :
            HasInitramfsIfcfg(nm_client.devices[i]) =>
                /\ ret.err = ""
                /\ \E j \in 1..Len(ret.out) : ret.out[j] = nm_client.devices[i].iface
                /\ \E j \in 1..Len(ret.calls) :
                      /\ ret.calls[j].fn = "ensure_active_connection_for_device"
                      /\ ret.calls[j].device = nm_client.devices[i].iface
                      /\ ret.calls[j].uuid = nm_client.devices[i].ifcfg.uuid

\* C19, what the code does: the consolidation raises AttributeError, and
\* returns nothing, exactly when the client has such a device, and
\* activates nothing for such a device.
ConsolidateIfcfgRaises ==
    Ran("ConsolidateInitramfsConnectionsTask") =>
        /\ ret.err \in {"", "AttributeError"}
        /\ ret.err = "AttributeError" <=>
                \E i \in 1..Len(nm_client.devices) : HasInitramfsIfcfg(nm_client.devices[i])
        /\ \A i \in 1..Len(nm_client.devices) :
                HasInitramfsIfcfg(nm_client.devices[i]) =>
                    ~Activation(nm_client.devices[i].iface)

\* The consolidation raised for the second device, after it had made a
\* connection the active one of the first device.
ConsolidateIfcfgRaisesWitness ==
    /\ Ran("ConsolidateInitramfsConnectionsTask")
    /\ ret.err = "AttributeError"
    /\ ret.out = <<>>
    /\ Len(nm_client.devices) = 2
    /\ HasInitramfsIfcfg(nm_client.devices[2])
    /\ Activation(nm_client.devices[1].iface)

\* The calls the run made for the j-th network command: those from the
\* j-th resolution of a device name to the next one.
CallsFor(j) ==
    SelectSeq([i \in 1..Len(ret.calls) |->
                    [call |-> ret.calls[i],
                     command |-> Cardinality({ m \in 1..i :
                        ret.calls[m].fn = "get_device_name_from_network_data" })]],
              LAMBDA entry : entry.command = j)

\* The devices whose ONBOOT value the run set out to update for the j-th
\* network command, one entry for every update: of the ifcfg file when
\* ONBOOT is set, of the connections of the device otherwise.
Targets(j) ==
    LET primary == IF network_data[j].onboot THEN "update_onboot_value"
                   ELSE "update_iface_setting_values"
        updates == SelectSeq(CallsFor(j), LAMBDA entry : entry.call.fn = primary)
    IN [i \in 1..Len(updates) |-> updates[i].call.device]

\* C20: for a network command with a vlan id and slaves of a bond or of a
\* team, the ONBOOT value is updated for two devices, once each: the vlan
\* device the command resolves to and the master named by the device of
\* the command; for any other network command it is updated for the one
\* device the command resolves to.
OnbootTargets ==
    Ran("SetRealOnbootValuesFromKickstartTask") =>
        \A j \in 1..Len(network_data) :
            LET data == network_data[j]
            IN IF data.vlanid # "" /\ (Len(data.bondslaves) > 0 \/ Len(data.teamslaves) > 0)
               THEN Targets(j) = <<data.device_name, data.device>>
               ELSE Targets(j) = <<data.device_name>>

\* onboot=yes, bondslaves=[ens9,ens10], vlanid=222, device=bond0: the
\* ONBOOT value was updated for bond0.222 and for bond0.
OnbootTargetsWitness ==
    /\ Ran("SetRealOnbootValuesFromKickstartTask")
    /\ Len(network_data) = 1
    /\ network_data[1].onboot
    /\ network_data[1].device = "bond0"
    /\ network_data[1].vlanid = "222"
    /\ network_data[1].bondslaves = <<"ens9", "ens10">>
    /\ Targets(1) = <<"bond0.222", "bond0">>

\* ------------------------------------------------------------------------
\* Where SetRealOnbootValuesFromKickstartTask writes the ONBOOT value
\* (SpecDirectives).
\* ------------------------------------------------------------------------

\* The devices the j-th network command is about: the device it resolves
\* to and, for a vlan over a bond or a team, the master.
DirectiveTargets(j) ==
    LET data == network_data[j]
    IN IF data.vlanid # "" /\ (Len(data.bondslaves) > 0 \/ Len(data.teamslaves) > 0)
       THEN <<data.device_name, data.device>>
       ELSE <<data.device_name>>

\* The calls of a function made for the j-th network command.
CallsOf(j, fn) ==
    LET calls == SelectSeq(CallsFor(j), LAMBDA entry : entry.call.fn = fn)
    IN [i \in 1..Len(calls) |-> calls[i].call]

\* The writes of a value to the ifcfg files of the devices, one for each.
IfcfgWrites(devices, value) ==
    [i \in 1..Len(devices) |->
        [fn |-> "update_onboot_value", device |-> devices[i],
         uuid |-> find_ifcfg_uuid_of_device(devices[i]), value |-> value]]

\* The updates of the connections of the devices, one for each.
ConnectionUpdates(devices, value) ==
    [i \in 1..Len(devices) |->
        [fn |-> "update_iface_setting_values", device |-> devices[i],
         uuid |-> "", value |-> value]]

\* C21: for a network command with ONBOOT set, the value is written to the
\* ifcfg file of each device the command is about, once each and to no
\* other file, and the connections of no device are updated.
OnbootYesOnDiskOnly ==
    Ran("SetRealOnbootValuesFromKickstartTask") =>
        \A j \in 1..Len(network_data) :
            network_data[j].onboot =>
                /\ CallsOf(j, "update_iface_setting_values") = <<>>
                /\ CallsOf(j, "update_onboot_value") = IfcfgWrites(DirectiveTargets(j), TRUE)

\* onboot=yes for ens3, a device with two connections and an ifcfg file:
\* the value was written to the file, the connections were left alone and
\* ens3 was returned.
OnbootYesOnDiskOnlyWitness ==
    /\ Ran("SetRealOnbootValuesFromKickstartTask")
    /\ Len(network_data) = 1
    /\ network_data[1].onboot
    /\ network_data[1].device_name = "ens3"
    /\ nm_client.devices # <<>>
    /\ Len(nm_client.devices[1].cons) = 2
    /\ nm_client.devices[1].ifcfg.exists
    /\ Len(CallsOf(1, "update_onboot_value")) = 1
    /\ CallsOf(1, "update_iface_setting_values") = <<>>
    /\ ret.out = <<"ens3">>

\* The number of connections of the device with the interface name.
Matched(device_name) ==
    LET device == get_device_by_iface(device_name)
    IN IF device = 0 THEN 0 ELSE Len(nm_client.devices[device].cons)

\* C22: for a network command with ONBOOT not set, the connections of each
\* device the command is about are updated, once each, and the value is
\* written to the ifcfg file of exactly the devices for which more than
\* one connection was found; with one connection no file is written.
OnbootNoLive ==
    Ran("SetRealOnbootValuesFromKickstartTask") =>
        \A j \in 1..Len(network_data) :
            ~network_data[j].onboot =>
                /\ CallsOf(j, "update_iface_setting_values")
                        = ConnectionUpdates(DirectiveTargets(j), FALSE)
                /\ CallsOf(j, "update_onboot_value")
                        = IfcfgWrites(SelectSeq(DirectiveTargets(j),
                                                LAMBDA name : Matched(name) > 1), FALSE)

\* onboot=no for ens3, a device with two connections and an ifcfg file:
\* the connections were updated and the value was written to the file.
OnbootNoLiveWitness ==
    /\ Ran("SetRealOnbootValuesFromKickstartTask")
    /\ Len(network_data) = 1
    /\ ~network_data[1].onboot
    /\ network_data[1].device_name = "ens3"
    /\ nm_client.devices # <<>>
    /\ Len(nm_client.devices[1].cons) = 2
    /\ nm_client.devices[1].ifcfg.exists
    /\ Len(CallsOf(1, "update_iface_setting_values")) = 1
    /\ Len(CallsOf(1, "update_onboot_value")) = 1
    /\ ret.out = <<"ens3">>

\* onboot=no for ens3, a device with one connection: the connection was
\* updated and no file was written.
OnbootNoLiveSingle ==
    /\ Ran("SetRealOnbootValuesFromKickstartTask")
    /\ Len(network_data) = 1
    /\ ~network_data[1].onboot
    /\ network_data[1].device_name = "ens3"
    /\ nm_client.devices # <<>>
    /\ Len(nm_client.devices[1].cons) = 1
    /\ Len(CallsOf(1, "update_iface_setting_values")) = 1
    /\ CallsOf(1, "update_onboot_value") = <<>>

\* ------------------------------------------------------------------------
\* The ifcfg files DumpMissingIfcfgFilesTask creates (SpecDevices).
\* ------------------------------------------------------------------------

\* The connections the run committed to disk for the device.
Committed(device) ==
    LET calls == SelectSeq(ret.calls, LAMBDA call :
                    call.fn = "commit_changes" /\ call.device = device.iface)
    IN [i \in 1..Len(calls) |-> calls[i].uuid]

\* The device is in the list the run returned.
Returned(device) == \E i \in 1..Len(ret.out) : ret.out[i] = device.iface

\* A wired device without ifcfg file that has several available
\* connections, none of them of a slave.
SeveralPlain(device) ==
    /\ device.wired
    /\ ~device.ifcfg.exists
    /\ Len(device.cons) > 1
    /\ \A k \in 1..Len(device.cons) : device.cons[k].master = ""

\* The available connections of the device that are bound to its interface.
BoundTo(device) ==
    SelectSeq(device.cons, LAMBDA con : con.interface_name = device.iface)

\* The connection to make persistent: the active connection when it is
\* bound to the interface and available, else the first available
\* connection bound to the interface (<<>>: none).
Promoted(device) ==
    IF /\ device.active.exists
       /\ device.active.interface_name = device.iface
       /\ \E k \in 1..Len(device.cons) : device.cons[k].uuid = device.active.uuid
    THEN <<device.active.uuid>>
    ELSE IF BoundTo(device) # <<>> THEN <<BoundTo(device)[1].uuid>> ELSE <<>>

\* C23: for a wired device without ifcfg file and with several available
\* connections, none of a slave, the run commits exactly one connection,
\* the active one when it is bound to the interface and available, else
\* the first available one bound to the interface, and returns the device;
\* when there is no such connection it commits nothing for the device and
\* does not return it.
DumpPromotesOne ==
    Ran("DumpMissingIfcfgFilesTask") =>
        \A i \in 1..Len(nm_client.devices) :
            LET device == nm_client.devices[i]
            IN SeveralPlain(device) =>
                /\ Committed(device) = Promoted(device)
                /\ Returned(device) <=> Promoted(device) # <<>>

\* The first device has two connections bound to it and the second is the
\* active one: the second was committed and the device returned.
DumpPromotesOneWitness ==
    /\ Ran("DumpMissingIfcfgFilesTask")
    /\ nm_client.devices # <<>>
    /\ SeveralPlain(nm_client.devices[1])
    /\ Len(BoundTo(nm_client.devices[1])) = 2
    /\ Committed(nm_client.devices[1]) = <<nm_client.devices[1].cons[2].uuid>>
    /\ Returned(nm_client.devices[1])

\* The active connection is not bound to the device: the first bound
\* connection, the second of the available ones, was committed.
DumpPromotesFirstBound ==
    /\ Ran("DumpMissingIfcfgFilesTask")
    /\ nm_client.devices # <<>>
    /\ SeveralPlain(nm_client.devices[1])
    /\ nm_client.devices[1].active.uuid = nm_client.devices[1].cons[1].uuid
    /\ Committed(nm_client.devices[1]) = <<nm_client.devices[1].cons[2].uuid>>

\* No connection can be made persistent: nothing was committed and the
\* device was not returned.
DumpPromotesNone ==
    /\ Ran("DumpMissingIfcfgFilesTask")
    /\ nm_client.devices # <<>>
    /\ SeveralPlain(nm_client.devices[1])
    /\ Promoted(nm_client.devices[1]) = <<>>
    /\ Committed(nm_client.devices[1]) = <<>>
    /\ ~Returned(nm_client.devices[1])

\* The run created an ifcfg file for the device: it added the default
\* connection for it or committed one of its connections to disk.
Created(device) ==
    \E i \in 1..Len(ret.calls) :
        /\ ret.calls[i].fn \in {"add_connection_from_ksdata", "commit_changes"}
        /\ ret.calls[i].device = device.iface

\* A wired device without ifcfg file that has several available
\* connections, one of them of a slave.
SeveralWithSlave(device) ==
    /\ device.wired
    /\ ~device.ifcfg.exists
    /\ Len(device.cons) > 1
    /\ \E k \in 1..Len(device.cons) : device.cons[k].master # ""

\* C24 as stated: the run returns a device exactly when it created an
\* ifcfg file for it.
DumpReturnsCreated ==
    Ran("DumpMissingIfcfgFilesTask") =>
        \A i \in 1..Len(nm_client.devices) :
            Returned(nm_client.devices[i]) <=> Created(nm_client.devices[i])

\* C24: what the run does return: the devices it created an ifcfg file
\* for, and the wired devices without ifcfg file that have several
\* connections with a slave among them, for which it writes nothing.
DumpReturnsSlaves ==
    Ran("DumpMissingIfcfgFilesTask") =>
        \A i \in 1..Len(nm_client.devices) :
            LET device == nm_client.devices[i]
            IN /\ Returned(device) <=> (Created(device) \/ SeveralWithSlave(device))
               /\ SeveralWithSlave(device) => ~Created(device)

\* The first device has two connections, one of a slave: nothing was
\* written for it and it was returned.
DumpReturnsSlavesWitness ==
    /\ Ran("DumpMissingIfcfgFilesTask")
    /\ nm_client.devices # <<>>
    /\ SeveralWithSlave(nm_client.devices[1])
    /\ ~Created(nm_client.devices[1])
    /\ Returned(nm_client.devices[1])

\* ------------------------------------------------------------------------
\* What ApplyKickstartTask does for each network command (SpecDirectives,
\* SpecCommandLists).
\* ------------------------------------------------------------------------

\* The j-th network command is skipped: it is for a wireless device or
\* its device is not found.
Skipped(j) ==
    network_data[j].essid # "" \/ network_data[j].device_name = None

\* The calls of the functions made for the j-th network command by
\* ApplyKickstartTask, which looks for a device for the commands that are
\* not for a wireless device.
AppliedCalls(j, fns) ==
    LET resolution == Cardinality({ m \in 1..j : network_data[m].essid = "" })
        calls == SelectSeq(CallsFor(resolution), LAMBDA entry : entry.call.fn \in fns)
    IN IF network_data[j].essid # "" THEN <<>>
       ELSE [i \in 1..Len(calls) |-> calls[i].call]

\* The ifcfg file of the device of the j-th network command.
IfcfgOf(j) ==
    LET device == get_device_by_iface(network_data[j].device_name)
    IN IF device = 0 THEN NoIfcfg ELSE nm_client.devices[device].ifcfg

\* The device of the j-th network command has an ifcfg file from kickstart.
FromKickstart(j) == IfcfgOf(j).exists /\ IfcfgOf(j).is_from_kickstart

\* The connection of the ifcfg file is one of the connections of the
\* device of the j-th network command.
Activatable(j) ==
    LET device == get_device_by_iface(network_data[j].device_name)
    IN /\ device # 0
       /\ \E k \in 1..Len(nm_client.devices[device].cons) :
              nm_client.devices[device].cons[k].uuid = IfcfgOf(j).uuid

\* The device names of the network commands at the positions, in the
\* order of the commands.
DevicesOf(positions) ==
    LET commands == SelectSeq([j \in 1..Len(network_data) |-> j],
                              LAMBDA j : j \in positions)
    IN [i \in 1..Len(commands) |-> network_data[commands[i]].device_name]

\* The connections the run created, updated and activated for the j-th
\* network command are those of a command applied after switch root: the
\* connection of the ifcfg file is updated, or one is created when there
\* is no file, and it is activated only when the command asks for it.
AppliedNow(j) ==
    LET data == network_data[j]
        uuid == IfcfgOf(j).uuid
    IN /\ AppliedCalls(j, {"ensure_active_connection_for_device"}) = <<>>
       /\ AppliedCalls(j, {"update_connection_from_ksdata"})
            = IF IfcfgOf(j).exists
              THEN <<[fn |-> "update_connection_from_ksdata", device |-> data.device_name,
                      uuid |-> uuid, value |-> FALSE]>>
              ELSE <<>>
       /\ AppliedCalls(j, {"activate_connection_async"})
            = IF IfcfgOf(j).exists /\ data.activate
              THEN <<[fn |-> "activate_connection_async", device |-> data.device_name,
                      uuid |-> uuid, value |-> FALSE]>>
              ELSE <<>>
       /\ AppliedCalls(j, {"add_connection_from_ksdata"})
            = IF IfcfgOf(j).exists THEN <<>>
              ELSE <<[fn |-> "add_connection_from_ksdata", device |-> data.device_name,
                      uuid |-> "", value |-> data.activate]>>

\* The run created and updated nothing for the j-th network command, and
\* made sure the connection of the ifcfg file is active only when the
\* command asks for it.
AppliedBefore(j) ==
    LET data == network_data[j]
    IN /\ AppliedCalls(j, {"update_connection_from_ksdata", "add_connection_from_ksdata",
                            "activate_connection_async"}) = <<>>
       /\ AppliedCalls(j, {"ensure_active_connection_for_device"})
            = IF data.activate
              THEN <<[fn |-> "ensure_active_connection_for_device",
                      device |-> data.device_name, uuid |-> IfcfgOf(j).uuid,
                      value |-> FALSE]>>
              ELSE <<>>

\* What the run did for each network command that is not skipped.
AppliedEach ==
    \A j \in 1..Len(network_data) :
        ~Skipped(j) => IF FromKickstart(j) THEN AppliedBefore(j) ELSE AppliedNow(j)

\* C29 as stated: the device of every network command that is not skipped
\* is returned, with or without an ifcfg file from kickstart.
ApplyKickstartRecordsAll ==
    Ran("ApplyKickstartTask") =>
        /\ AppliedEach
        /\ ret.out = DevicesOf({ j \in 1..Len(network_data) : ~Skipped(j) })

\* C29: for a device with an ifcfg file from kickstart nothing is created
\* or updated, its connection is activated only when the command asks for
\* it, and the device is returned only when the command asks for the
\* activation and the connection was activated; for every other command
\* that is not skipped the connection of the ifcfg file is updated, or one
\* is created when there is no file, it is activated only when the command
\* asks for it, and the device is returned.
ApplyKickstartRecords ==
    Ran("ApplyKickstartTask") =>
        /\ AppliedEach
        /\ ret.out = DevicesOf({ j \in 1..Len(network_data) :
                        /\ ~Skipped(j)
                        /\ FromKickstart(j) => network_data[j].activate /\ Activatable(j) })

\* A command for ens3 without activation, ens3 with an ifcfg file from
\* kickstart: nothing was called for the connection and nothing returned.
ApplyKickstartRecordsWitness ==
    /\ Ran("ApplyKickstartTask")
    /\ Len(network_data) = 1
    /\ ~Skipped(1) /\ FromKickstart(1)
    /\ ~network_data[1].activate
    /\ AppliedCalls(1, {"get_ifcfg_file_of_device"}) # <<>>
    /\ ret.out = <<>>

\* A command for ens3 with activation, ens3 with an ifcfg file from
\* kickstart and its connection: the connection was activated and ens3
\* returned.
ApplyKickstartActivated ==
    /\ Ran("ApplyKickstartTask")
    /\ Len(network_data) = 1
    /\ ~Skipped(1) /\ FromKickstart(1)
    /\ network_data[1].activate /\ Activatable(1)
    /\ Len(AppliedCalls(1, {"ensure_active_connection_for_device"})) = 1
    /\ ret.out = <<"ens3">>

\* The same command, the connection of the ifcfg file not available:
\* nothing was returned.
ApplyKickstartNotActivated ==
    /\ Ran("ApplyKickstartTask")
    /\ Len(network_data) = 1
    /\ ~Skipped(1) /\ FromKickstart(1)
    /\ network_data[1].activate /\ ~Activatable(1)
    /\ Len(AppliedCalls(1, {"ensure_active_connection_for_device"})) = 1
    /\ ret.out = <<>>

\* A command with activation for ens3, ens3 with an ifcfg file from the
\* initramfs: the connection was updated and activated, and ens3 returned.
ApplyKickstartUpdated ==
    /\ Ran("ApplyKickstartTask")
    /\ Len(network_data) = 1
    /\ ~Skipped(1) /\ IfcfgOf(1).exists /\ ~FromKickstart(1)
    /\ network_data[1].activate
    /\ Len(AppliedCalls(1, {"update_connection_from_ksdata"})) = 1
    /\ Len(AppliedCalls(1, {"activate_connection_async"})) = 1
    /\ ret.out = <<"ens3">>

\* The functions that create, update or activate a connection.
ConnectionChanges ==
    {"ensure_active_connection_for_device", "get_connection_by_uuid",
     "update_connection_from_ksdata", "get_device_by_iface",
     "activate_connection_async", "add_connection_from_ksdata"}

\* C30: for a network command that is skipped the run creates, updates and
\* activates nothing and returns no device, and the commands after it are
\* processed: the run looks for a device once for every command that is
\* not for a wireless device, calls nothing before that, calls nothing
\* else for a command whose device is not found, and looks for the ifcfg
\* file of the device of every command that is not skipped.
ApplyKickstartSkips ==
    Ran("ApplyKickstartTask") =>
        /\ ret.calls # <<>> => ret.calls[1].fn = "get_device_name_from_network_data"
        /\ Len(SelectSeq(ret.calls, LAMBDA call :
                            call.fn = "get_device_name_from_network_data"))
                = Cardinality({ j \in 1..Len(network_data) : network_data[j].essid = "" })
        /\ \A j \in 1..Len(network_data) :
                IF Skipped(j)
                THEN AppliedCalls(j, ConnectionChanges \cup {"get_ifcfg_file_of_device"}) = <<>>
                ELSE Len(AppliedCalls(j, {"get_ifcfg_file_of_device"})) = 1
        /\ Len(ret.out) <= Cardinality({ j \in 1..Len(network_data) : ~Skipped(j) })
        /\ \A i \in 1..Len(ret.out) :
                \E j \in 1..Len(network_data) :
                    ~Skipped(j) /\ ret.out[i] = network_data[j].device_name

\* A command for a wireless device followed by a command for ens3, a
\* device without ifcfg file: a connection was created for ens3 and
\* nothing else was called.
ApplyKickstartSkipsWitness ==
    /\ Ran("ApplyKickstartTask")
    /\ Len(network_data) = 2
    /\ network_data[1].essid # ""
    /\ ~Skipped(2) /\ ~IfcfgOf(2).exists
    /\ Len(ret.calls) = 3
    /\ Len(AppliedCalls(2, {"add_connection_from_ksdata"})) = 1
    /\ ret.out = <<"ens3">>

\* A command whose device is not found followed by a command for ens3: a
\* connection was created for ens3.
ApplyKickstartSkipsUnresolved ==
    /\ Ran("ApplyKickstartTask")
    /\ Len(network_data) = 2
    /\ network_data[1].essid = "" /\ network_data[1].device_name = None
    /\ ~Skipped(2) /\ ~IfcfgOf(2).exists
    /\ Len(ret.calls) = 4
    /\ Len(AppliedCalls(2, {"add_connection_from_ksdata"})) = 1
    /\ ret.out = <<"ens3">>

\* ------------------------------------------------------------------------
\* The placeholders of the addons that are not registered (SpecAddons).
\* ------------------------------------------------------------------------

\* The types of the registry of the addons.
AddonsTyped ==
    \A i \in 1..Len(addons) :
        /\ addons[i].id \in AddonIds
        /\ \A k \in 1..Len(addons) : addons[k].id = addons[i].id => k = i

\* The entry is a placeholder.
IsPlaceholder(entry) == entry.addon.name = PLACEHOLDER_NAME

\* The addons of the registry the calls of the function were made for.
CalledFor(fn) ==
    LET calls == SelectSeq(ret.calls, LAMBDA call : call.fn = fn)
    IN [i \in 1..Len(calls) |-> calls[i].device]

PlaceholderFilled ==
    /\ ret.op = "handleLine"
    /\ ret.err = ""
    /\ addon_id = "foo_addon"
    /\ \E i \in 1..Len(addons) :
            /\ addons[i].id = "foo_addon"
            /\ IsPlaceholder(addons[i])
            /\ addons[i].addon.header_args = <<"--x", " ", "--y">>
            /\ addons[i].addon.content = <<"a\n">>

\* ------------------------------------------------------------------------
\* The bootloader module without and with a storage model, and its tasks
\* (SpecBootloader).
\* ------------------------------------------------------------------------

\* C26: IsEFI, GetArguments and DetectWindows raise UnavailableStorageError
\* as long as no storage model was delivered by on_storage_reset, and
\* after that they raise nothing and answer from the boot loader of the
\* model delivered last.
UnavailableBeforeReset ==
    ret.op \in {"IsEFI", "GetArguments", "DetectWindows"} =>
        IF ~bootloader_storage.delivered
        THEN ret.err = "UnavailableStorageError"
        ELSE /\ ret.err = ""
             /\ ret.op = "IsEFI" => ret.flag = bootloader_storage.efi
             /\ ret.op = "GetArguments" => ret.out = bootloader_storage.boot_args
             /\ ret.op = "DetectWindows" => ret.flag = bootloader_storage.has_windows

\* GetArguments() was called before any storage model was delivered and
\* raised UnavailableStorageError.
UnavailableBeforeResetWitness ==
    /\ ret.op = "GetArguments"
    /\ ~bootloader_storage.delivered
    /\ ret.err = "UnavailableStorageError"

\* GetArguments() was called after a storage model with the boot
\* arguments x=1 and y=2 was delivered, and returned them.
AvailableAfterReset ==
    /\ ret.op = "GetArguments"
    /\ bootloader_storage.delivered
    /\ ret.err = ""
    /\ ret.out = <<"x=1", "y=2">>

\* The calls of the function the last operation made.
Calls(fn) == SelectSeq(ret.calls, LAMBDA call : call.fn = fn)

\* C27: run() of ConfigureBootloaderTask adds no image when the boot
\* loader is disabled and, when it is enabled, adds one image, of the
\* kernel version it was given, and makes it the default one; run() of
\* InstallBootloaderTask does not write the boot loader when it is
\* disabled or skipped and, when it is enabled, sets the boot arguments
\* once and writes once.
BootloaderTasksByMode ==
    /\ ret.op = "ConfigureBootloaderTask" =>
            /\ bootloader_mode = "DISABLED" => Calls("add_image") = <<>>
            /\ bootloader_mode = "ENABLED" =>
                    /\ Calls("add_image") = <<BootloaderCall("add_image", ret.who)>>
                    /\ bootloader_storage.images # <<>>
                    /\ bootloader_storage.images[Len(bootloader_storage.images)] = ret.who
                    /\ bootloader_storage.default = ret.who
    /\ ret.op = "InstallBootloaderTask" =>
            /\ bootloader_mode \in {"DISABLED", "SKIPPED"} => Calls("write") = <<>>
            /\ bootloader_mode = "ENABLED" =>
                    /\ Len(Calls("set_boot_args")) = 1
                    /\ Len(Calls("write")) = 1

\* The task of the installation was run with the boot loader skipped: it
\* wrote nothing.
BootloaderTasksByModeWitness ==
    /\ ret.op = "InstallBootloaderTask"
    /\ bootloader_mode = "SKIPPED"
    /\ ret.calls = <<>>

\* The task of the configuration was run with the boot loader enabled: it
\* added the image of the kernel and made it the default one.
BootloaderConfigured ==
    /\ ret.op = "ConfigureBootloaderTask"
    /\ bootloader_mode = "ENABLED"
    /\ Len(ret.calls) = 1
    /\ bootloader_storage.images = <<"4.17.7-200.fc28.x86_64">>
    /\ bootloader_storage.default = "4.17.7-200.fc28.x86_64"

\* The task of the configuration was run with the boot loader disabled.
BootloaderNotConfigured ==
    /\ ret.op = "ConfigureBootloaderTask"
    /\ bootloader_mode = "DISABLED"
    /\ ret.calls = <<>>
    /\ bootloader_storage.images = <<>>

\* The task of the installation was run with the boot loader enabled.
BootloaderInstalled ==
    /\ ret.op = "InstallBootloaderTask"
    /\ bootloader_mode = "ENABLED"
    /\ Len(ret.calls) = 2

\* ------------------------------------------------------------------------
\* The tasks of the storage module run once (Spec).
\* ------------------------------------------------------------------------

\* C28: a task of reset_with_task() is run at most once and the callback
\* of its succeeded_signal, which sets its model as the model of the
\* storage module, is called at most once; apply_partitioning() runs its
\* validation task at most once.
TaskRunsOnce ==
    /\ \A t \in 1..Len(tasks) : tasks[t].runs <= 1 /\ tasks[t].swaps <= 1
    /\ ret.op = "apply_partitioning" => Len(ret.calls) <= 1

\* The task of a reset has run and succeeded: its model is the model of
\* the storage module, after one run and one call of the callback.
TaskRunsOnceWitness ==
    /\ tasks # <<>>
    /\ tasks[1].state = "succeeded"
    /\ tasks[1].runs = 1
    /\ tasks[1].swaps = 1
    /\ _storage = tasks[1].storage

\* apply_partitioning() has run its validation task, which raised.
ValidationRunOnce ==
    /\ ret.op = "apply_partitioning"
    /\ ret.err = "InvalidStorageError"
    /\ Len(ret.calls) = 1

\* The device has two or more available connections, none of a slave, no
\* ifcfg file and no available connection bound to its interface.
NothingPersistent(device) ==
    /\ Len(device.cons) >= 2
    /\ \A k \in 1..Len(device.cons) : device.cons[k].master = ""
    /\ ~device.ifcfg.exists
    /\ \A k \in 1..Len(device.cons) : device.cons[k].interface_name # device.iface

\* The device has two or more available connections, none of a slave, no
\* ifcfg file and an available connection bound to its interface.
HasBoundConnection(device) ==
    /\ Len(device.cons) >= 2
    /\ \A k \in 1..Len(device.cons) : device.cons[k].master = ""
    /\ ~device.ifcfg.exists
    /\ \E k \in 1..Len(device.cons) : device.cons[k].interface_name = device.iface

\* C31: the consolidation of the initramfs connections skips a device with
\* two or more available connections, none of a slave, that has no ifcfg
\* file and no available connection bound to its interface: it raises no
\* error where no device has an ifcfg file from the initramfs, activates
\* nothing for the device, does not return it, and goes on to the devices
\* after it, of which one with a bound connection is returned.
ConsolidateSkipsUnbound ==
    Ran("ConsolidateInitramfsConnectionsTask") =>
        \A i \in 1..Len(nm_client.devices) :
            NothingPersistent(nm_client.devices[i]) =>
                /\ (\A j \in 1..Len(nm_client.devices) :
                        ~HasInitramfsIfcfg(nm_client.devices[j])) => ret.err = ""
                /\ ~Activation(nm_client.devices[i].iface)
                /\ \A j \in 1..Len(ret.out) : ret.out[j] # nm_client.devices[i].iface
                /\ \A j \in (i + 1)..Len(nm_client.devices) :
                      /\ HasBoundConnection(nm_client.devices[j])
                      /\ \A k \in 1..(j - 1) : ~HasInitramfsIfcfg(nm_client.devices[k])
                      => /\ Activation(nm_client.devices[j].iface)
                         /\ ret.err = "" =>
                               \E k \in 1..Len(ret.out) :
                                   ret.out[k] = nm_client.devices[j].iface

\* The first device has two connections that are not bound to it and no
\* ifcfg file; the run ended without an error and returned the second
\* device alone.
ConsolidateSkipsUnboundWitness ==
    /\ Ran("ConsolidateInitramfsConnectionsTask")
    /\ Len(nm_client.devices) = 2
    /\ NothingPersistent(nm_client.devices[1])
    /\ HasBoundConnection(nm_client.devices[2])
    /\ ret.err = ""
    /\ ret.out = <<nm_client.devices[2].iface>>

\* The last operation was a click on Done that ran _do_check().
DidCheck ==
    /\ ret.op = "on_back_clicked"
    /\ \E i \in 1..Len(ret.calls) : ret.calls[i].fn = "_do_check"

\* C32: _do_check() leaves the storage of the spoke the object it was, and
\* after it each of the five collections of that storage (devices,
\* actions, hidden, names, roots) is the collection of the playground.
CheckSplicesAll ==
    /\ spoke.storage.id = 1
    /\ DidCheck =>
          /\ spoke._storage_playground.id # spoke.storage.id
          /\ CollectionsOf(spoke.storage) = CollectionsOf(spoke._storage_playground)

\* _do_check() ran for the playground of the second refresh, a copy with
\* collections of its own to which blivet-gui added a device.
CheckSplicesAllWitness ==
    /\ DidCheck
    /\ spoke._storage_playground.id = 3
    /\ spoke.storage._devices = 11
    /\ collections[spoke.storage._devices] > collections[1]

\* The click on Done of this step ran _do_check(), which found errors.
CheckFails ==
    /\ ret'.op = "on_back_clicked"
    /\ \E i \in 1..Len(ret'.calls) : ret'.calls[i].fn = "_do_check"
    /\ spoke'.errors # <<>>

\* C33 as claimed: when _do_check() reports errors, the collections of the
\* storage of the spoke are the ones of before the check, with the same
\* entries.
CheckKeepsStorage ==
    [][CheckFails =>
          /\ CollectionsOf(spoke'.storage) = CollectionsOf(spoke.storage)
          /\ ContentOf(collections', spoke'.storage) = ContentOf(collections, spoke.storage)]_vars

\* C33, what the code does: the collections of the playground are spliced
\* into the storage of the spoke before the check; when _do_check() reports
\* errors, the collections of the storage are the ones of the playground,
\* with the entries the playground had, and the spoke is not left.
CheckSplicesFirst ==
    [][CheckFails =>
          /\ CollectionsOf(spoke'.storage) = CollectionsOf(spoke._storage_playground)
          /\ ContentOf(collections', spoke'.storage)
                = ContentOf(collections, spoke._storage_playground)
          /\ spoke'._storage_playground = spoke._storage_playground
          /\ ~ret'.flag]_vars

\* _do_check() reported errors for a playground to which blivet-gui had
\* added a device, and the storage of the spoke has this device.
CheckSplicesFirstWitness ==
    /\ DidCheck
    /\ spoke.errors # <<>>
    /\ ~ret.flag
    /\ spoke.storage._devices # 1
    /\ collections[spoke.storage._devices] > collections[1]

\* The action-summary dialog was shown by the last click on Done.
DialogShown(calls) ==
    \E i \in 1..Len(calls) : calls[i].fn = "ActionSummaryDialog.run"

SectionText(id, header_args, lines) ==
    <<"%addon", " ", id, " ">> \o header_args \o <<"\n">> \o lines \o <<"%end", "\n">>

\* The addon the registry has under the id, or a new one.
AddonAt(registry, id) ==
    IF hasattr(registry, id) THEN registry[getattr(registry, id)].addon
    ELSE AddonData(id)

\* This step handles the header of a section of an addon that has no text
\* yet.
OpensSection ==
    /\ ret'.op = "handleHeader"
    /\ ret'.err = ""
    /\ AddonAt(addons, ret'.out[2]).header_args = <<>>
    /\ AddonAt(addons, ret'.out[2]).content = <<>>

\* This step hands a line of the open section to its addon.
AddsLine ==
    /\ ret'.op = "handleLine"
    /\ ret'.err = ""
    /\ hasattr(addons, addon_id)

\* C34 as claimed: str() of every addon is the text of its section with
\* the id written in the header: after the header of a section, the header
\* with the arguments joined by single spaces and %end; after each line,
\* the same header, the lines of before, the line and %end.
StrIsSection ==
    [][/\ OpensSection =>
            __str__(AddonAt(addons', ret'.out[2]))
                = SectionText(ret'.out[2], Join(SubArgs(ret'.out)), <<>>)
       /\ AddsLine =>
            __str__(AddonAt(addons', addon_id))
                = SectionText(addon_id, AddonAt(addons, addon_id).header_args,
                              Append(AddonAt(addons, addon_id).content, ret'.out[1]))]_vars

\* The name str() prints for the addon the registry has under the id: the
\* id of a registered addon, the name of the placeholder of any other one.
PrintedName(registry, id) ==
    IF AddonAt(registry, id).name = PLACEHOLDER_NAME THEN PLACEHOLDER_NAME ELSE id

\* C34, what the code does: str() is the text of the section for a
\* registered addon; for an addon that is not registered it is the text of
\* the section with the name of the placeholder in the place of the id.
StrIsSectionOfName ==
    [][/\ OpensSection =>
            __str__(AddonAt(addons', ret'.out[2]))
                = SectionText(PrintedName(addons', ret'.out[2]),
                              Join(SubArgs(ret'.out)), <<>>)
       /\ AddsLine =>
            __str__(AddonAt(addons', addon_id))
                = SectionText(PrintedName(addons, addon_id),
                              AddonAt(addons, addon_id).header_args,
                              Append(AddonAt(addons, addon_id).content, ret'.out[1]))]_vars

\* The section of the registered addon com_example_foo was read with two
\* arguments and two lines, and str() gives it back.
StrIsSectionOfNameWitness ==
    /\ ret.op = "handleLine"
    /\ addon_id = "com_example_foo"
    /\ hasattr(addons, addon_id)
    /\ __str__(AddonAt(addons, addon_id))
         = <<"%addon", " ", "com_example_foo", " ", "--x", " ", "--y", "\n",
             "a\n", "b\n", "%end", "\n">>

\* This step is the success of the run of a reset task.
ResetSucceeds == ret'.op = "StorageResetTask.run" /\ ret'.err = ""

\* This step is an apply_partitioning that did not raise.
Applies == ret'.op = "apply_partitioning" /\ ret'.err = ""

\* C35: the success of a reset task makes the model the task was created
\* with the canonical model, whatever the canonical model was and whatever
\* the other tasks did; a successful apply_partitioning makes a new copy
\* the canonical model; and no other step changes a canonical model there
\* is, so that the canonical model is the one of the last of these events.
LastCompletionWins ==
    [][/\ \A t \in 1..Len(tasks) : tasks'[t].storage = tasks[t].storage
       /\ ResetSucceeds => _storage' = tasks[ret'.num].storage
       /\ Applies =>
            /\ _storage' = Len(models')
            /\ _storage' > Len(models)
       /\ ~ResetSucceeds /\ ~Applies /\ _storage # 0 => _storage' = _storage]_vars

\* Two reset tasks were created and a partitioning was applied; the second
\* task succeeded before the first one, and the canonical model is the
\* model of the first task.
LastCompletionWinsWitness ==
    /\ ret.op = "StorageResetTask.run"
    /\ ret.err = ""
    /\ ret.num = 1
    /\ Len(tasks) = 2
    /\ tasks[2].state = "succeeded"
    /\ Len(models) = 5
    /\ _storage = tasks[1].storage

\* The one reset task succeeded after a partitioning had been applied
\* since its creation.
AppliedBeforeSuccess ==
    /\ ret.op = "StorageResetTask.run"
    /\ ret.err = ""
    /\ Len(tasks) = 1
    /\ Len(models) >= 4
    /\ _storage = tasks[1].storage

\* A partitioning was applied after the success of the reset tasks.
AppliedAfterSuccess ==
    /\ ret.op = "apply_partitioning"
    /\ ret.err = ""
    /\ Len(tasks) = 2
    /\ \A t \in 1..2 : tasks[t].state = "succeeded"
    /\ _storage = Len(models)

\* The run updated the ONBOOT value of the device with the name: it wrote
\* the value to an ifcfg file there is, updated a connection of the device,
\* or updated the connection of a slave of a master.
OnbootUpdated(name) ==
    \E i \in 1..Len(ret.calls) :
        \/ /\ ret.calls[i].fn = "update_onboot_value"
           /\ ret.calls[i].device = name
           /\ update_onboot_value(ret.calls[i].uuid)
        \/ /\ ret.calls[i].fn = "update_iface_setting_values"
           /\ ret.calls[i].device = name
           /\ Matched(name) >= 1
        \/ /\ ret.calls[i].fn = "update_slaves_onboot_value"
           /\ \E k \in 1..Len(update_slaves_onboot_value(ret.calls[i].device,
                                                        ret.calls[i].uuid)) :
                update_slaves_onboot_value(ret.calls[i].device, ret.calls[i].uuid)[k] = name

\* The run looked for connections of the name to clear ONBOOT and found
\* none.
NothingToUpdate(name) ==
    /\ Matched(name) = 0
    /\ \E i \in 1..Len(ret.calls) :
        /\ ret.calls[i].fn = "update_iface_setting_values"
        /\ ret.calls[i].device = name
        /\ ~ret.calls[i].value

\* C36 as claimed: every entry of the list the ONBOOT task returns is the
\* name of a device there is whose ONBOOT value the run updated; no entry
\* is None.
OnbootReturnsUpdated ==
    Ran("SetRealOnbootValuesFromKickstartTask") =>
        \A j \in 1..Len(ret.out) :
            /\ ret.out[j] # None
            /\ get_device_by_iface(ret.out[j]) # 0
            /\ OnbootUpdated(ret.out[j])

\* C36, what the code does: an entry of the list is the name of a device
\* whose ONBOOT value the run updated, or a name, None for a device that
\* was not found, for which ONBOOT is not set and no connection was found;
\* and every such name of a network command is returned.
OnbootReturnsUnmatched ==
    Ran("SetRealOnbootValuesFromKickstartTask") =>
        /\ \A j \in 1..Len(ret.out) :
              \/ get_device_by_iface(ret.out[j]) # 0 /\ OnbootUpdated(ret.out[j])
              \/ NothingToUpdate(ret.out[j])
        /\ \A j \in 1..Len(network_data) :
              ~network_data[j].onboot =>
                  \A k \in 1..Len(DirectiveTargets(j)) :
                      Matched(DirectiveTargets(j)[k]) = 0 =>
                          \E i \in 1..Len(ret.out) : ret.out[i] = DirectiveTargets(j)[k]

\* onboot=no for ens3, a device without a connection: nothing was updated
\* and ens3 was returned.
OnbootReturnsUnmatchedWitness ==
    /\ Ran("SetRealOnbootValuesFromKickstartTask")
    /\ Len(network_data) = 1
    /\ ~network_data[1].onboot
    /\ network_data[1].device_name = "ens3"
    /\ get_device_by_iface("ens3") # 0
    /\ Matched("ens3") = 0
    /\ CallsOf(1, "update_onboot_value") = <<>>
    /\ ret.out = <<"ens3">>

\* onboot=no for a device that was not found: None was returned.
OnbootReturnsNone ==
    /\ Ran("SetRealOnbootValuesFromKickstartTask")
    /\ Len(network_data) = 1
    /\ network_data[1].device_name = None
    /\ ret.out = <<None>>

\* C38: when setup() of the registry has returned, the registry has no
\* placeholder and has every addon that is not a placeholder, under the id
\* and with the texts it had, in the order it had; setup was called once
\* on each addon of the registry and on nothing else; and a setup() right
\* after a setup() leaves the registry as it is.
SetupKeepsAddons ==
    [][ret'.op = "setup" =>
          /\ \A i \in 1..Len(addons') : ~IsPlaceholder(addons'[i])
          /\ \A i \in 1..Len(addons) :
                ~IsPlaceholder(addons[i]) =>
                    /\ hasattr(addons', addons[i].id)
                    /\ AddonAt(addons', addons[i].id) = addons[i].addon
          /\ Len(addons') = Cardinality({ i \in 1..Len(addons) : ~IsPlaceholder(addons[i]) })
          /\ CalledFor("setup")' = Ids(addons')
          /\ \A i \in 1..Len(addons') :
                Cardinality({ k \in 1..Len(ret'.calls) :
                                /\ ret'.calls[k].fn = "setup"
                                /\ ret'.calls[k].device = addons'[i].id }) = 1
          /\ ret.op = "setup" => addons' = addons /\ CalledFor("log.warning")' = <<>>]_vars

\* The section of com_example_foo was read, with a line, then the section
\* of foo_addon, which is not registered, was opened: setup() removed the
\* placeholder and left com_example_foo with its line.
SetupKeepsAddonsWitness ==
    /\ ret.op = "setup"
    /\ addon_id = "foo_addon"
    /\ CalledFor("log.warning") = <<"foo_addon">>
    /\ Ids(addons) = <<"com_example_foo">>
    /\ addons[1].addon.content # <<>>
    /\ CalledFor("setup") = <<"com_example_foo">>

\* The lists gather_requests() can return in this state.
GatherResults == gather_loop(_iterate_usable_devices, 1..Len(requests), <<>>)

\* The requests of a list gather_requests() returns.
RequestsOf(result) == [i \in 1..Len(result) |-> result[i].request]

\* The declared requests that resolve to the device.
DeclaredFor(device) ==
    { k \in 1..Len(requests) : resolve_device(requests[k].device_spec) = device }

\* C39 as claimed: another call of gather_requests() with the same declared
\* requests, selected disks and device tree returns the list the last call
\* returned.
GatherDeterministic ==
    ret.op = "gather_requests" =>
        \A result \in GatherResults : RequestsOf(result) = RequestsOf(ret.out)

\* C39, what the code does: another call returns a list for the same
\* devices in the same order, with the same request for every device that
\* at most one declared request resolves to; for a device that several
\* declared requests resolve to it returns one of them, not always the
\* same one.
GatherDeterministicButDuplicates ==
    ret.op = "gather_requests" =>
        LET results == GatherResults
            declared == [i \in 1..Len(ret.out) |-> DeclaredFor(ret.out[i].device)]
        IN \A result \in results :
              /\ Len(result) = Len(ret.out)
              /\ \A i \in 1..Len(result) :
                    /\ result[i].device = ret.out[i].device
                    /\ IF Cardinality(declared[i]) <= 1
                       THEN result[i].request = ret.out[i].request
                       ELSE /\ result[i].declared \in declared[i]
                            /\ ret.out[i].declared \in declared[i]

\* Two declared requests resolve to the first device, one by its name and
\* one by its path; the call returned the request declared second, where
\* another call can return the one declared first.
GatherDeterministicButDuplicatesWitness ==
    /\ ret.op = "gather_requests"
    /\ Len(ret.out) >= 1
    /\ Len(requests) = 2
    /\ DeclaredFor(ret.out[1].device) = {1, 2}
    /\ requests[1] # requests[2]
    /\ ret.out[1].declared = 2
    /\ \E result \in GatherResults : result[1].declared = 1

\* The last operation was a run() with the configuration of the network
\* disabled.
GuardedRun == ret.op = "run" /\ ~can_configure_network

\* C40 as claimed: with the configuration of the network disabled, run()
\* of each of the four tasks returns an empty list, whatever the callers
\* did with the lists returned before.
GuardedRunReturnsEmpty == GuardedRun => ret.out = <<>>

\* C40, what the code does: with the configuration of the network disabled
\* run() returns the one list of its decorator, with the names the callers
\* added to it after earlier calls; the lists of the other tasks are not
\* changed by that, and a run() changes no list.
GuardedRunReturnsShared ==
    [][/\ GuardedRun' =>
            /\ ret'.out = return_value[ret'.who]
            /\ ret'.err = ""
            /\ ret'.calls = <<>>
       /\ ret'.op = "run" => return_value' = return_value
       /\ ret'.op = "append" =>
            /\ \A task \in NetworkTasks \ {ret.who} :
                    return_value'[task] = return_value[task]
            /\ ~can_configure_network =>
                    return_value'[ret.who] = Append(return_value[ret.who], "ens3")
            /\ can_configure_network => return_value'[ret.who] = return_value[ret.who]]_vars

\* With the configuration disabled, the caller added ens3 to the list
\* ApplyKickstartTask.run() returned, and the next run() returned it; the
\* list of the consolidation task is empty.
GuardedRunReturnsSharedWitness ==
    /\ GuardedRun
    /\ ret.who = "ApplyKickstartTask"
    /\ ret.out = <<"ens3">>
    /\ return_value["ConsolidateInitramfsConnectionsTask"] = <<>>

====
